---------------------------- MODULE Spec2Model ----------------------------
(***************************************************************************)
(* A model of the measurement-protocol assistant of src/main.py:           *)
(* the tolerance-fit resolver (IsoFitsCalculator), the nearest-entity      *)
(* picker (DXFWidget) and the protocol form (MessprotokollWidget,          *)
(* MainWindow).                                                            *)
(*                                                                         *)
(* Texts are sequences of one-character strings, so that trimming,         *)
(* replacing, parsing and formatting are computed and not assumed.         *)
(* Numbers (Python floats in the source) are integers in units of 10^-5    *)
(* (UNIT per 1.0): every decimal text of at most five decimals is exact.   *)
(***************************************************************************)
EXTENDS Integers, Sequences, FiniteSets, TLC

VARIABLES
    tolerances_file,   \* what Data/tolerances.json holds (the environment)
    app,               \* "starting" | "running" | "exited" | "crashed"
    tolerances_data,   \* IsoFitsCalculator.tolerances_data
    available_fits,    \* IsoFitsCalculator.available_fits
    dialogs,           \* the message boxes the last handler showed, in order
    calc_args,         \* the arguments of the last calculate call
    calc_result,       \* what the last calculate call gave its caller
    last_op,           \* the handler that ran last
    doc,               \* DXFWidget.doc
    active_layout,     \* DXFWidget.active_layout: the entities of the layout
    selection_mode,    \* DXFWidget.selection_mode
    target_widget,     \* MainWindow.target_widget
    protokoll_widget,  \* the fields of MessprotokollWidget
    emitted,           \* the signals the last handler emitted, in order
    click,             \* the pick point and search radius of the last left click
    disk,              \* the workbook the last successful save wrote
    edits,             \* how many times the user has edited a field by hand
    mapping_file,      \* what mapping.json holds (the environment)
    template_exists,   \* whether LEERFORMULAR.xlsx is in place (the environment)
    io                 \* the file dialog and workbook accesses of the last handler

fitVars == <<tolerances_file, app, tolerances_data, available_fits,
             calc_args, calc_result>>

dxfVars == <<doc, active_layout, selection_mode>>

envVars == <<mapping_file, template_exists>>

vars == <<fitVars, dialogs, last_op, dxfVars, target_widget, protokoll_widget,
          emitted, click, disk, edits, envVars, io>>

-----------------------------------------------------------------------------
(* Bounds of the model *)

\* longest tolerance table drawn for tolerances.json
MaxRows == 2

\* most entities of a layout, and of a block an INSERT refers to
MaxEntities == 2

\* the measurement slots the model follows, of the TOTAL_MEASURES of the form
MaxSlots == 2

\* the slots the user fills in by hand before saving and loading
MaxFilled == 1

\* most edits by hand in one run
MaxEdits == 3

\* most edits by hand in a run of clicks and picks
MaxTyped == 1

\* pick points have coordinates 0..MaxCoord
MaxCoord == 3

\* the search radius of a click, in drawing units, is 1..MaxRadius
MaxRadius == 2

-----------------------------------------------------------------------------
(* Texts *)

Digits == {"0", "1", "2", "3", "4", "5", "6", "7", "8", "9"}

DigitVal(c) ==
    CASE c = "0" -> 0 [] c = "1" -> 1 [] c = "2" -> 2 [] c = "3" -> 3
      [] c = "4" -> 4 [] c = "5" -> 5 [] c = "6" -> 6 [] c = "7" -> 7
      [] c = "8" -> 8 [] c = "9" -> 9 [] OTHER -> 0

DigitChar(d) ==
    CASE d = 0 -> "0" [] d = 1 -> "1" [] d = 2 -> "2" [] d = 3 -> "3"
      [] d = 4 -> "4" [] d = 5 -> "5" [] d = 6 -> "6" [] d = 7 -> "7"
      [] d = 8 -> "8" [] OTHER -> "9"

\* str.lower() on one character of the model's alphabet
LowerChar(c) ==
    CASE c = "H" -> "h" [] c = "G" -> "g" [] c = "A" -> "a" [] c = "M" -> "m"
      [] c = "R" -> "r" [] c = "X" -> "x" [] OTHER -> c

\* str.lower()
Lower(s) == [i \in 1..Len(s) |-> LowerChar(s[i])]

\* str.replace(a, b) for one-character a and b
Replace(s, a, b) == [i \in 1..Len(s) |-> IF s[i] = a THEN b ELSE s[i]]

RECURSIVE LStrip(_)
LStrip(s) == IF s # <<>> /\ Head(s) = " " THEN LStrip(Tail(s)) ELSE s

RECURSIVE RStrip(_)
RStrip(s) ==
    IF s # <<>> /\ s[Len(s)] = " " THEN RStrip(SubSeq(s, 1, Len(s) - 1)) ELSE s

\* str.strip()
Strip(s) == RStrip(LStrip(s))

\* the code point order of the characters the fit classes use
CharCode(c) ==
    CASE c \in Digits -> 48 + DigitVal(c)
      [] c = "A" -> 65 [] c = "G" -> 71 [] c = "H" -> 72 [] c = "M" -> 77
      [] c = "R" -> 82 [] c = "X" -> 88
      [] c = "a" -> 97 [] c = "g" -> 103 [] c = "h" -> 104 [] c = "m" -> 109
      [] c = "r" -> 114 [] c = "x" -> 120
      [] OTHER -> 32

\* s < t as Python compares strings
RECURSIVE StrLess(_, _)
StrLess(s, t) ==
    IF t = <<>> THEN FALSE
    ELSE IF s = <<>> THEN TRUE
    ELSE IF CharCode(Head(s)) # CharCode(Head(t))
         THEN CharCode(Head(s)) < CharCode(Head(t))
    ELSE StrLess(Tail(s), Tail(t))

\* sorted(list(S)) for a set of texts
RECURSIVE SortedTexts(_)
SortedTexts(S) ==
    IF S = {} THEN <<>>
    ELSE LET m == CHOOSE x \in S : \A y \in S \ {x} : StrLess(x, y)
         IN  <<m>> \o SortedTexts(S \ {m})

-----------------------------------------------------------------------------
(* Numbers *)

\* decimals of a formatted target value or picked value (":.4f")
ValueDecimals == 4

\* decimals of a formatted deviation ("+.3f")
DeviationDecimals == 3

\* decimals a number of the model carries: one more than any format keeps,
\* so that formatting rounds
UnitDecimals == ValueDecimals + 1

RECURSIVE Pow10(_)
Pow10(n) == IF n <= 0 THEN 1 ELSE 10 * Pow10(n - 1)

\* units per 1.0
UNIT == Pow10(UnitDecimals)

Abs(x) == IF x < 0 THEN -x ELSE x

\* the value of a run of digits
RECURSIVE DigitsVal(_)
DigitsVal(s) ==
    IF s = <<>> THEN 0
    ELSE 10 * DigitsVal(SubSeq(s, 1, Len(s) - 1)) + DigitVal(s[Len(s)])


\* the positions of "." in s
Dots(s) == {i \in 1..Len(s) : s[i] = "."}

\* the value of an unsigned decimal text d1.d2 (either part may be empty,
\* not both); digits past UnitDecimals are cut
DecimalVal(s) ==
    IF Dots(s) = {} THEN DigitsVal(s) * UNIT
    ELSE LET p    == CHOOSE i \in Dots(s) : TRUE
             ip   == SubSeq(s, 1, p - 1)
             fp   == SubSeq(s, p + 1, Len(s))
             kept == SubSeq(fp, 1, IF Len(fp) < UnitDecimals THEN Len(fp)
                                   ELSE UnitDecimals)
         IN  DigitsVal(ip) * UNIT + DigitsVal(kept) * Pow10(UnitDecimals - Len(kept))

\* an unsigned decimal text float() accepts: digits with at most one ".",
\* at least one digit
IsDecimal(s) ==
    /\ Cardinality(Dots(s)) <= 1
    /\ \E i \in 1..Len(s) : s[i] \in Digits
    /\ \A i \in 1..Len(s) : s[i] \in Digits \cup {"."}

NoNumber == [ok |-> FALSE, v |-> 0]

Number(v) == [ok |-> TRUE, v |-> v]

\* float(s) for a text s: surrounding blanks and one sign are accepted;
\* ok = FALSE stands for ValueError. (Exponents, "inf", "nan" and "_" are
\* outside the model's alphabet.)
PyFloat(s) ==
    LET t    == Strip(s)
        sgn  == t # <<>> /\ Head(t) \in {"+", "-"}
        body == IF sgn THEN Tail(t) ELSE t
    IN  IF ~IsDecimal(body) THEN NoNumber
        ELSE Number(IF sgn /\ Head(t) = "-" THEN -DecimalVal(body)
                    ELSE DecimalVal(body))

\* the decimal digits of a natural number
RECURSIVE NatDigits(_)
NatDigits(n) ==
    IF n < 10 THEN <<DigitChar(n)>>
    ELSE NatDigits(n \div 10) \o <<DigitChar(n % 10)>>

\* n as exactly w digits (n < 10^w)
RECURSIVE PadDigits(_, _)
PadDigits(n, w) ==
    IF w = 0 THEN <<>>
    ELSE PadDigits(n \div 10, w - 1) \o <<DigitChar(n % 10)>>

\* v rounded to dec decimals, in units of 10^-dec (halves go to the even
\* neighbour, as for a float that holds the decimal exactly)
RoundTo(v, dec) ==
    LET q    == Pow10(UnitDecimals - dec)
        base == Abs(v) \div q
        rem  == Abs(v) % q
    IN  IF 2 * rem > q \/ (2 * rem = q /\ base % 2 = 1) THEN base + 1 ELSE base

\* f"{v:.<dec>f}", and f"{v:+.<dec>f}" when plus
FormatFixed(v, dec, plus) ==
    LET r    == RoundTo(v, dec)
        sign == IF v < 0 THEN <<"-">> ELSE IF plus THEN <<"+">> ELSE <<>>
    IN  sign \o NatDigits(r \div Pow10(dec)) \o <<".">> \o PadDigits(r % Pow10(dec), dec)

-----------------------------------------------------------------------------
(* What a handler does with files *)

\* dialog: the file dialog the handler opened ("none", "open" or "save");
\* suggested: the file name the save dialog proposed; read: the workbook the
\* handler gave to load_workbook ("none", "template", or the kind of the
\* chosen path); written: whether workbook.save ran to its end
Io(dialog, suggested, read, written) ==
    [dialog |-> dialog, suggested |-> suggested, read |-> read, written |-> written]

\* a handler that opens no file dialog and touches no workbook
NoIo == Io("none", <<>>, "none", FALSE)

-----------------------------------------------------------------------------
(* The tolerance table: Data/tolerances.json and IsoFitsCalculator *)

\* a field of a JSON record: a number, a string, or absent from the record
Num(n)  == [k |-> "num", n |-> n, s |-> <<>>]
Str(s)  == [k |-> "str", n |-> 0, s |-> s]
Absent  == [k |-> "absent", n |-> 0, s |-> <<>>]

\* a record of the table: limits in millimetres, deviations in micrometres
Entry(cls, lo, hi, es, ei) ==
    [toleranzklasse |-> cls, lowerlimit |-> lo, upperlimit |-> hi,
     es |-> es, ei |-> ei]

\* a record as the data model describes it: a string class, numeric limits
\* and deviations
IsToleranceEntry(e) ==
    /\ e.toleranzklasse.k = "str"
    /\ e.lowerlimit.k = "num" /\ e.upperlimit.k = "num"
    /\ e.es.k = "num" /\ e.ei.k = "num"

\* the records tolerances.json is drawn from
EntryLib ==
    { Entry(Str(<<"H", "7">>), Num(6), Num(10), Num(15), Num(0)),
      Entry(Str(<<"h", "7">>), Num(6), Num(10), Num(0), Num(-15)),
      Entry(Str(<<"H", "7">>), Num(3), Num(10), Num(12), Num(-3)),
      Entry(Str(<<"g", "6">>), Num(6), Num(10), Num(-5), Num(-14)),
      Entry(Str(<<"H", "7">>), Absent, Num(10), Num(15), Num(0)),
      Entry(Str(<<"H", "7">>), Num(6), Num(10), Str(<<"x">>), Num(0)),
      Entry(Absent, Num(6), Num(10), Num(15), Num(0)) }

RECURSIVE SeqsUpTo(_, _)
SeqsUpTo(S, n) ==
    IF n = 0 THEN {<<>>}
    ELSE LET shorter == SeqsUpTo(S, n - 1)
         IN  shorter \cup {Append(q, x) : q \in {r \in shorter : Len(r) = n - 1}, x \in S}

\* what open() and json.load() can give for tolerances.json: no file, a file
\* that cannot be opened, text that is no JSON, or a JSON value: a list of
\* records, an object with n keys, a string of n characters, a number
JsonList(rows) == [kind |-> "list", rows |-> rows, n |-> Len(rows)]
JsonOther(kind, n) == [kind |-> kind, rows |-> <<>>, n |-> n]

Files ==
    { JsonOther("missing", 0), JsonOther("denied", 0), JsonOther("garbage", 0),
      JsonOther("object", 0), JsonOther("object", 1),
      JsonOther("string", 0), JsonOther("string", 1), JsonOther("number", 0) }
    \cup { JsonList(rows) : rows \in SeqsUpTo(EntryLib, MaxRows) }

\* _load_data's outcome for a file: "exited" (dialog, sys.exit(1)), "crashed"
\* (an exception neither except clause names leaves the constructor) or
\* "running"
LoadOutcome(f) ==
    CASE f.kind \in {"missing", "garbage"} -> "exited"
      [] f.kind = "denied" -> "crashed"
      [] f.kind = "number" -> "crashed"
      [] f.kind \in {"object", "string"} -> IF f.n = 0 THEN "running" ELSE "crashed"
      [] OTHER -> IF \E i \in 1..Len(f.rows) : f.rows[i].toleranzklasse.k = "absent"
                  THEN "crashed" ELSE "running"

\* the set all_fits of _load_data
AllFits(rows) ==
    {rows[i].toleranzklasse.s : i \in {j \in 1..Len(rows) : rows[j].toleranzklasse.k = "str"}}

\* IsoFitsCalculator.__init__ and _load_data
LoadData ==
    /\ app = "starting"
    /\ app' = LoadOutcome(tolerances_file)
    /\ tolerances_data' = IF tolerances_file.kind = "list" /\ app' # "exited"
                          THEN tolerances_file.rows ELSE <<>>
    /\ available_fits' = IF app' = "running"
                         THEN <<<<>>>> \o SortedTexts(AllFits(tolerances_file.rows))
                         ELSE <<<<>>>>
    /\ dialogs' = IF app' = "exited" THEN <<"Fataler Fehler">> ELSE <<>>
    /\ last_op' = "_load_data"
    /\ emitted' = <<>>
    /\ io' = NoIo
    /\ UNCHANGED <<tolerances_file, calc_args, calc_result, dxfVars, target_widget,
                   protokoll_widget, click, disk, edits, envVars>>

\* what calculate gives: a pair of deviations, None, or an exception
Pair(es, ei) == [kind |-> "pair", es |-> es, ei |-> ei]
None         == [kind |-> "none", es |-> 0, ei |-> 0]
Raised       == [kind |-> "raised", es |-> 0, ei |-> 0]

\* entry["toleranzklasse"].lower() == fit_string.lower():
\* "yes", "no", or "raise" (no such key, or a value without lower())
ClassTest(e, fit) ==
    IF e.toleranzklasse.k # "str" THEN "raise"
    ELSE IF Lower(e.toleranzklasse.s) = Lower(fit) THEN "yes" ELSE "no"

\* the range test with the lower bound included: a slip of < for <=
RangeTestLowerIncluded(e, size) ==
    IF e.lowerlimit.k # "num" THEN "raise"
    ELSE IF ~(e.lowerlimit.n * UNIT <= size) THEN "no"
    ELSE IF e.upperlimit.k # "num" THEN "raise"
    ELSE IF size <= e.upperlimit.n * UNIT THEN "yes" ELSE "no"

\* entry["lowerlimit"] < nominal_size <= entry["upperlimit"], evaluated
\* left to right: the upper limit is read only when the lower test holds
RangeTest(e, size) ==
    IF e.lowerlimit.k # "num" THEN "raise"
    ELSE IF ~(e.lowerlimit.n * UNIT < size) THEN "no"
    ELSE IF e.upperlimit.k # "num" THEN "raise"
    ELSE IF size <= e.upperlimit.n * UNIT THEN "yes" ELSE "no"

\* entry["es"] / 1000.0, entry["ei"] / 1000.0
Deviations(e) ==
    IF e.es.k # "num" \/ e.ei.k # "num" THEN Raised
    ELSE Pair((e.es.n * UNIT) \div 1000, (e.ei.n * UNIT) \div 1000)

\* the for loop of calculate
RECURSIVE ScanEntries(_, _, _)
ScanEntries(rows, size, fit) ==
    IF rows = <<>> THEN None
    ELSE LET e == Head(rows)
             c == ClassTest(e, fit)
             r == IF c = "yes" THEN RangeTest(e, size) ELSE c
         IN  IF r = "raise" THEN Raised
             ELSE IF r = "yes" THEN Deviations(e)
             ELSE ScanEntries(Tail(rows), size, fit)

\* calculate without its try/except: an exception reaches the caller
calculateUnguarded(rows, size, fit) ==
    IF rows = <<>> THEN None ELSE ScanEntries(rows, size, fit)

\* IsoFitsCalculator.calculate
calculate(rows, size, fit) ==
    IF rows = <<>> THEN None
    ELSE LET r == ScanEntries(rows, size, fit)
         IN  IF r.kind = "raised" THEN None ELSE r

\* the nominal sizes and fit labels a lookup is drawn from
Sizes == {3 * UNIT, 6 * UNIT, 6 * UNIT + 1, 10 * UNIT, 10 * UNIT + 1}

FitLabels == {<<>>, <<"H", "7">>, <<"h", "7">>, <<"g", "6">>, <<"G", "6">>, <<"k", "6">>}

\* a call of calculate(nominal_size, fit_string) on the loaded table
Calculate ==
    /\ app = "running"
    /\ \E size \in Sizes, fit \in FitLabels :
          /\ calc_args' = [called |-> TRUE, size |-> size, fit |-> fit]
          /\ calc_result' = calculate(tolerances_data, size, fit)
    /\ last_op' = "calculate"
    /\ dialogs' = <<>>
    /\ emitted' = <<>>
    /\ io' = NoIo
    /\ UNCHANGED <<tolerances_file, app, tolerances_data, available_fits, dxfVars,
                   target_widget, protokoll_widget, click, disk, edits, envVars>>

NoCall == [called |-> FALSE, size |-> 0, fit |-> <<>>]

-----------------------------------------------------------------------------
(* The drawing: entities of the active layout, and the picker of DXFWidget *)

\* an entity as the picker reads it.  text is dxf.text (of a DIMENSION: the
\* override text), plain is MTEXT.plain_text(), measurement is what
\* get_measurement() gives (ok = FALSE: no int or float, or TypeError or
\* ValueError), subs are the virtual_entities() of a DIMENSION or an INSERT
Ent(type, has_insert, insert, text, plain, measurement, a, b, subs) ==
    [type |-> type, has_insert |-> has_insert, insert |-> insert, text |-> text,
     plain |-> plain, measurement |-> measurement, a |-> a, b |-> b, subs |-> subs]

Origin == <<0, 0>>

TextEnt(insert, text) ==
    Ent("TEXT", TRUE, insert, text, text, NoNumber, Origin, Origin, <<>>)

\* an MTEXT whose raw content carries a formatting code before its text
MTextEnt(insert, plain) ==
    Ent("MTEXT", TRUE, insert, <<"\\", "H", "2", ";">> \o plain, plain, NoNumber,
        Origin, Origin, <<>>)

TextNoInsert(text) ==
    Ent("TEXT", FALSE, Origin, text, text, NoNumber, Origin, Origin, <<>>)

LineEnt(a, b) == Ent("LINE", FALSE, Origin, <<>>, <<>>, NoNumber, a, b, <<>>)

DimEnt(measurement, usertext, prims) ==
    Ent("DIMENSION", FALSE, Origin, usertext, <<>>, measurement, Origin, Origin, prims)

InsertEnt(subs) ==
    Ent("INSERT", FALSE, Origin, <<>>, <<>>, NoNumber, Origin, Origin, subs)

IsText(e) == e.type \in {"TEXT", "MTEXT"}

\* TEXT: dxf.text, MTEXT: plain_text()
TextContent(e) == IF e.type = "TEXT" THEN e.text ELSE e.plain

\* the number of digits of s from position j on
RECURSIVE DigitRun(_, _)
DigitRun(s, j) ==
    IF j <= Len(s) /\ s[j] \in Digits THEN 1 + DigitRun(s, j + 1) ELSE 0

\* the end of the match of [-+]?\d*\.?\d+ that starts at position i of s, or 0.
\* The sign is taken when present; the digits before the point are taken
\* greedily; the point is kept only when a digit follows it.
MatchEnd(s, i) ==
    LET j    == IF s[i] \in {"+", "-"} THEN i + 1 ELSE i
        ai   == DigitRun(s, j)
        dot  == j + ai <= Len(s) /\ s[j + ai] = "."
        bi   == IF dot THEN DigitRun(s, j + ai + 1) ELSE 0
    IN  IF dot /\ bi >= 1 THEN j + ai + bi
        ELSE IF ai >= 1 THEN j + ai - 1
        ELSE 0

\* float(re.search(r'[-+]?\d*\.?\d+', s).group(0)), or no number
SearchNumber(s) ==
    LET starts == {i \in 1..Len(s) : MatchEnd(s, i) # 0}
    IN  IF starts = {} THEN NoNumber
        ELSE LET i == CHOOSE x \in starts : \A y \in starts : x <= y
             IN  PyFloat(SubSeq(s, i, MatchEnd(s, i)))

\* the first TEXT or MTEXT among the primitives, as an index, or 0
FirstText(prims) ==
    LET T == {i \in 1..Len(prims) : IsText(prims[i])}
    IN  IF T = {} THEN 0 ELSE CHOOSE i \in T : \A j \in T : i <= j

\* the last loop of get_dimension_value: the first primitive text that holds
\* a number
RECURSIVE LabelNumber(_)
LabelNumber(prims) ==
    IF prims = <<>> THEN NoNumber
    ELSE LET e == Head(prims)
             n == IF IsText(e) THEN SearchNumber(Replace(TextContent(e), ",", "."))
                  ELSE NoNumber
         IN  IF n.ok THEN n ELSE LabelNumber(Tail(prims))

\* the override text of a dimension, when it is consulted
OverrideNumber(dim) ==
    IF dim.text # <<>> /\ dim.text # <<"<", ">">>
    THEN SearchNumber(Replace(dim.text, ",", "."))
    ELSE NoNumber

\* get_dimension_value with the override text read before the measurement
get_dimension_value_override_first(dim) ==
    IF OverrideNumber(dim).ok THEN OverrideNumber(dim)
    ELSE IF dim.measurement.ok THEN dim.measurement
    ELSE LabelNumber(dim.subs)

\* get_dimension_value: the measurement, else the override text, else the
\* rendered label
get_dimension_value(dim) ==
    IF dim.measurement.ok THEN dim.measurement
    ELSE IF OverrideNumber(dim).ok THEN OverrideNumber(dim)
    ELSE LabelNumber(dim.subs)

\* distances are kept as four times their square, which orders them as the
\* floats are ordered and keeps the centre of a bounding box on the grid
Dist4(p, q) == 4 * ((p[1] - q[1]) * (p[1] - q[1]) + (p[2] - q[2]) * (p[2] - q[2]))

Radius4(radius) == 4 * radius * radius

\* the points ezdxf.bbox.extents([dim], fast=True) spans: the ends of the
\* lines and the insertion points of the texts
RECURSIVE BoxPoints(_)
BoxPoints(prims) ==
    IF prims = <<>> THEN {}
    ELSE LET e == Head(prims)
         IN  (CASE e.type = "LINE" -> {e.a, e.b}
                [] IsText(e) /\ e.has_insert -> {e.insert}
                [] OTHER -> {})
             \cup BoxPoints(Tail(prims))

Min(S) == CHOOSE x \in S : \A y \in S : x <= y
Max(S) == CHOOSE x \in S : \A y \in S : x >= y

\* four times the squared distance of p to the centre of the box of pts
CenterDist4(p, pts) ==
    LET xs == {q[1] : q \in pts}
        ys == {q[2] : q \in pts}
        dx == 2 * p[1] - (Min(xs) + Max(xs))
        dy == 2 * p[2] - (Min(ys) + Max(ys))
    IN  dx * dx + dy * dy

Infinite == [fin |-> FALSE, d |-> 0]
Finite(d) == [fin |-> TRUE, d |-> d]

\* the distance find_dims_recursive gives a DIMENSION: to the insertion point
\* of its first text primitive, else to the centre of its bounding box, else
\* infinite
DimensionDist(dim, pos) ==
    LET t == FirstText(dim.subs)
    IN  IF t # 0 /\ dim.subs[t].has_insert THEN Finite(Dist4(pos, dim.subs[t].insert))
        ELSE IF BoxPoints(dim.subs) # {} THEN Finite(CenterDist4(pos, BoxPoints(dim.subs)))
        ELSE Infinite

\* the radius test left out: every entity with a distance passes
WithinAnyRadius(dist, radius) == dist.fin

\* dist < radius
Within(dist, radius) == dist.fin /\ dist.d < Radius4(radius)

\* find_dims_recursive: the (dist, value) pairs in traversal order
RECURSIVE find_dims_recursive(_, _, _)
find_dims_recursive(entities, pos, radius) ==
    IF entities = <<>> THEN <<>>
    ELSE LET e == Head(entities)
             here ==
                CASE e.type = "DIMENSION" ->
                        IF Within(DimensionDist(e, pos), radius) /\ get_dimension_value(e).ok
                        THEN <<[dist |-> DimensionDist(e, pos).d,
                                value |-> get_dimension_value(e).v]>>
                        ELSE <<>>
                  [] e.type = "INSERT" -> find_dims_recursive(e.subs, pos, radius)
                  [] OTHER -> <<>>
         IN  here \o find_dims_recursive(Tail(entities), pos, radius)

\* find_texts_recursive: the (dist, entity) pairs in traversal order
RECURSIVE find_texts_recursive(_, _, _)
find_texts_recursive(entities, pos, radius) ==
    IF entities = <<>> THEN <<>>
    ELSE LET e == Head(entities)
             here ==
                CASE IsText(e) ->
                        IF e.has_insert /\ Within(Finite(Dist4(pos, e.insert)), radius)
                        THEN <<[dist |-> Dist4(pos, e.insert), entity |-> e]>>
                        ELSE <<>>
                  [] e.type = "INSERT" -> find_texts_recursive(e.subs, pos, radius)
                  [] OTHER -> <<>>
         IN  here \o find_texts_recursive(Tail(entities), pos, radius)

\* the last element of found: what taking the end of the sorted list gives
LastFound(found) == found[Len(found)]

\* found.sort(key=lambda x: x[0]); found[0]: the sort is stable, so this is
\* the first element of the smallest dist
ClosestFound(found) ==
    LET best == {i \in 1..Len(found) : \A j \in 1..Len(found) : found[i].dist <= found[j].dist}
    IN  found[Min(best)]

NoSignal == <<>>

\* find_closest_dimension: the signals it emits
find_closest_dimension(layout, pos, radius) ==
    LET found == find_dims_recursive(layout, pos, radius)
    IN  IF found = <<>> THEN NoSignal
        ELSE <<[signal |-> "dimension_clicked",
                value |-> FormatFixed(ClosestFound(found).value, ValueDecimals, FALSE)]>>

\* find_closest_text without the strip() of the emitted text
find_closest_text_unstripped(layout, pos, radius) ==
    LET found == find_texts_recursive(layout, pos, radius)
    IN  IF found = <<>> THEN NoSignal
        ELSE <<[signal |-> "text_clicked",
                value |-> TextContent(ClosestFound(found).entity)]>>

\* find_closest_text: the signals it emits
find_closest_text(layout, pos, radius) ==
    LET found == find_texts_recursive(layout, pos, radius)
    IN  IF found = <<>> THEN NoSignal
        ELSE <<[signal |-> "text_clicked",
                value |-> Strip(TextContent(ClosestFound(found).entity))]>>

-----------------------------------------------------------------------------
(* The form: MessprotokollWidget *)

TOTAL_MEASURES == 18

MEASURES_PER_BLOCK == 3

BLOCKS_PER_PAGE == 2

\* TOTAL_MEASURES // MEASURES_PER_BLOCK
TOTAL_BLOCKS == TOTAL_MEASURES \div MEASURES_PER_BLOCK

\* math.ceil(TOTAL_BLOCKS / BLOCKS_PER_PAGE)
total_pages == (TOTAL_BLOCKS + BLOCKS_PER_PAGE - 1) \div BLOCKS_PER_PAGE

\* measure_blocks, by index
Blocks == 0..(TOTAL_BLOCKS - 1)

\* _update_page_view(): the blocks shown, the page label and the two buttons
_update_page_view(w) ==
    LET start_block == w.current_page * BLOCKS_PER_PAGE
        end_block   == start_block + BLOCKS_PER_PAGE
    IN  [w EXCEPT !.visible_blocks = {b \in Blocks : start_block <= b /\ b < end_block},
                  !.page_label = [page |-> w.current_page + 1, of |-> total_pages],
                  !.prev_enabled = w.current_page > 0,
                  !.next_enabled = w.current_page < total_pages - 1]

\* the slots the model follows
Slots == 1..(IF MaxSlots < TOTAL_MEASURES THEN MaxSlots ELSE TOTAL_MEASURES)

Placeholder == <<"-", "-", "-">>

\* the date QDate.currentDate() gives, and another one the user may pick
Today    == [d |-> 2, m |-> 11, y |-> 2026]
OtherDay == [d |-> 24, m |-> 12, y |-> 2025]

\* QDate.toString("dd.MM.yyyy")
DateToString(date) ==
    PadDigits(date.d, 2) \o <<".">> \o PadDigits(date.m, 2) \o <<".">> \o PadDigits(date.y, 4)

\* QDate.fromString(s, "dd.MM.yyyy"): ok = FALSE is an invalid date
DateFromString(s) ==
    IF /\ Len(s) = 10 /\ s[3] = "." /\ s[6] = "."
       /\ \A i \in {1, 2, 4, 5, 7, 8, 9, 10} : s[i] \in Digits
       /\ DigitsVal(SubSeq(s, 1, 2)) \in 1..31 /\ DigitsVal(SubSeq(s, 4, 5)) \in 1..12
    THEN [ok |-> TRUE, date |-> [d |-> DigitsVal(SubSeq(s, 1, 2)),
                                 m |-> DigitsVal(SubSeq(s, 4, 5)),
                                 y |-> DigitsVal(SubSeq(s, 7, 10))]]
    ELSE [ok |-> FALSE, date |-> Today]

\* the labels save puts before the surface treatment and the remarks; each
\* is one element of a text, which stands for its characters
OberflaecheLabel == "Oberflaechenbehandlung:"
BemerkungenLabel == "Bemerkungen:"

\* str.replace(label, "")
RECURSIVE RemoveLabel(_, _)
RemoveLabel(s, label) ==
    IF s = <<>> THEN <<>>
    ELSE IF Head(s) = label THEN RemoveLabel(Tail(s), label)
    ELSE <<Head(s)>> \o RemoveLabel(Tail(s), label)

\* the items of the measuring-tool combo box the model follows
MESSMITTEL_OPTIONS == {<<>>, <<"Z", "o", "l", "l", "e", "r">>}

\* the widget after construction, with cell_mapping as _load_mapping left it
InitialWidget(mapping) ==
  _update_page_view(
    [cell_mapping |-> mapping,
     zeichnungsnummer_field |-> <<>>, auftrag_edit |-> <<>>, pos_edit |-> <<>>,
     date_edit |-> Today, oberflaeche_edit |-> <<>>, bemerkungen_edit |-> <<>>,
     nominal_fields |-> [i \in Slots |-> <<>>],
     iso_fit_combos |-> [i \in Slots |-> <<>>],
     messmittel_combos |-> [i \in Slots |-> <<>>],
     upper_tol_combos |-> [i \in Slots |-> <<>>],
     lower_tol_combos |-> [i \in Slots |-> <<>>],
     soll_labels |-> [i \in Slots |-> Placeholder],
     scale_combo |-> <<"1", ":", "1">>,
     current_page |-> 0,
     visible_blocks |-> {}, page_label |-> [page |-> 0, of |-> 0],
     prev_enabled |-> TRUE, next_enabled |-> TRUE])

\* float(text.replace(',', '.') or 0)
FloatOrZero(text) ==
    IF text = <<>> THEN Number(0) ELSE PyFloat(Replace(text, ",", "."))

\* the target value written without the halving of the deviations
SollTextNotHalved(n, u, l) ==
    Replace(FormatFixed(n + (u + l), ValueDecimals, FALSE), ".", ",")

\* f"{nominal + (upper_tol + lower_tol) / 2.0:.4f}".replace('.', ',')
\* (the deviations of the model have at most ValueDecimals - 1 decimals, so
\* that the half is exact)
SollText(n, u, l) ==
    Replace(FormatFixed(n + (u + l) \div 2, ValueDecimals, FALSE), ".", ",")

\* _update_soll_wert that leaves the label alone when a text is no number
_update_soll_wert_label_kept(w, i) ==
    LET n == FloatOrZero(w.nominal_fields[i])
        u == FloatOrZero(w.upper_tol_combos[i])
        l == FloatOrZero(w.lower_tol_combos[i])
    IN  IF n.ok /\ u.ok /\ l.ok
        THEN [w EXCEPT !.soll_labels[i] = SollText(n.v, u.v, l.v)]
        ELSE w

\* _update_soll_wert(index)
_update_soll_wert(w, i) ==
    LET n == FloatOrZero(w.nominal_fields[i])
        u == FloatOrZero(w.upper_tol_combos[i])
        l == FloatOrZero(w.lower_tol_combos[i])
    IN  IF n.ok /\ u.ok /\ l.ok
        THEN [w EXCEPT !.soll_labels[i] = SollText(n.v, u.v, l.v)]
        ELSE [w EXCEPT !.soll_labels[i] = Placeholder]

\* a lookup that empties the deviations when no row is found
LookupFitClearsOnMiss(w1, i, rows) ==
    LET nominal_text == Replace(w1.nominal_fields[i], ",", ".")
        fit_string   == Strip(w1.iso_fit_combos[i])
        size         == PyFloat(nominal_text)
        result       == calculate(rows, size.v, fit_string)
        cleared      == _update_soll_wert(
                           [w1 EXCEPT !.upper_tol_combos[i] = <<>>,
                                      !.lower_tol_combos[i] = <<>>], i)
    IN  IF nominal_text = <<>> \/ fit_string = <<>> THEN w1
        ELSE IF ~size.ok THEN w1
        ELSE IF result.kind # "pair" THEN cleared
        ELSE _update_soll_wert(
                [w1 EXCEPT !.upper_tol_combos[i] = FormatFixed(result.es, DeviationDecimals, TRUE),
                           !.lower_tol_combos[i] = FormatFixed(result.ei, DeviationDecimals, TRUE)],
                i)

\* _trigger_iso_fit_calculation(index) after its first statement: w1 is the
\* form _update_soll_wert(index) left
LookupFit(w1, i, rows) ==
    LET nominal_text == Replace(w1.nominal_fields[i], ",", ".")
        fit_string   == Strip(w1.iso_fit_combos[i])
        size         == PyFloat(nominal_text)
        result       == calculate(rows, size.v, fit_string)
    IN  IF nominal_text = <<>> \/ fit_string = <<>> THEN w1
        ELSE IF ~size.ok THEN w1
        ELSE IF result.kind # "pair" THEN w1
        ELSE _update_soll_wert(
                [w1 EXCEPT !.upper_tol_combos[i] = FormatFixed(result.es, DeviationDecimals, TRUE),
                           !.lower_tol_combos[i] = FormatFixed(result.ei, DeviationDecimals, TRUE)],
                i)

\* _trigger_iso_fit_calculation(index), against the loaded table
_trigger_iso_fit_calculation(w, i, rows) == LookupFit(_update_soll_wert(w, i), i, rows)

\* nominal_fields[i].setText(text): textChanged fires when the text changes
SetNominal(w, i, text, rows) ==
    IF w.nominal_fields[i] = text THEN w
    ELSE _trigger_iso_fit_calculation([w EXCEPT !.nominal_fields[i] = text], i, rows)

\* iso_fit_combos[i].setCurrentText(text): currentTextChanged fires when the
\* text changes
SetIsoFit(w, i, text, rows) ==
    IF w.iso_fit_combos[i] = text THEN w
    ELSE _trigger_iso_fit_calculation([w EXCEPT !.iso_fit_combos[i] = text], i, rows)

\* messmittel_combos[i].setCurrentText(text): the box is not editable, a
\* text that is no item changes nothing
SetMessmittel(w, i, text) ==
    IF text \in MESSMITTEL_OPTIONS THEN [w EXCEPT !.messmittel_combos[i] = text] ELSE w

\* upper_tol_combos[i].setCurrentText(text)
SetUpperTol(w, i, text) ==
    IF w.upper_tol_combos[i] = text THEN w
    ELSE _update_soll_wert([w EXCEPT !.upper_tol_combos[i] = text], i)

\* lower_tol_combos[i].setCurrentText(text)
SetLowerTol(w, i, text) ==
    IF w.lower_tol_combos[i] = text THEN w
    ELSE _update_soll_wert([w EXCEPT !.lower_tol_combos[i] = text], i)

\* the body of _clear_ui's loop for slot i
ClearSlot(w, i, rows) ==
    LET w1 == SetNominal(w, i, <<>>, rows)
        w2 == SetIsoFit(w1, i, <<>>, rows)
        w3 == SetMessmittel(w2, i, <<>>)
        w4 == SetUpperTol(w3, i, <<>>)
        w5 == SetLowerTol(w4, i, <<>>)
    IN  [w5 EXCEPT !.soll_labels[i] = Placeholder]

RECURSIVE ClearSlotsFrom(_, _, _)
ClearSlotsFrom(w, i, rows) ==
    IF i \notin Slots THEN w ELSE ClearSlotsFrom(ClearSlot(w, i, rows), i + 1, rows)

\* _clear_ui()
_clear_ui(w, rows) ==
    ClearSlotsFrom([w EXCEPT !.zeichnungsnummer_field = <<>>, !.auftrag_edit = <<>>,
                             !.pos_edit = <<>>, !.oberflaeche_edit = <<>>,
                             !.bemerkungen_edit = <<>>, !.date_edit = Today],
                   1, rows)

-----------------------------------------------------------------------------
(* The workbook: mapping.json, LEERFORMULAR.xlsx, save and load *)

\* a cell value: None or a string
NoValue == [k |-> "none", s |-> <<>>]
StrValue(s) == [k |-> "str", s |-> s]

\* the coordinates of the sheet "Tabelle1" the mappings of the model name
HeaderCells == {<<"B", 2>>, <<"C", 2>>, <<"B", 3>>, <<"D", 3>>, <<"F", 3>>, <<"B", 4>>, <<"B", 5>>}

SlotCells == {<<c, 10 + i>> : c \in {"N", "I", "M", "U", "L", "S"}, i \in Slots}

Cells == HeaderCells \cup SlotCells

\* the template's merged region B2:C2: C2 is a MergedCell, B2 its anchor
MergedRanges == {[cells |-> {<<"B", 2>>, <<"C", 2>>}, anchor |-> <<"B", 2>>]}

IsMergedCell(coord) == \E r \in MergedRanges : coord \in r.cells /\ coord # r.anchor

AnchorOf(coord) == (CHOOSE r \in MergedRanges : coord \in r.cells).anchor

\* the sheet of LEERFORMULAR.xlsx: empty cells, and the label of the surface
\* treatment in its cell
TemplateSheet ==
    [c \in Cells |-> IF c = <<"B", 4>> THEN StrValue(<<OberflaecheLabel>>) ELSE NoValue]

\* the "measures" entry of slot i, keys in the order nominal, iso_fit, ...
MeasureEntry(i) ==
    << <<"nominal", <<"N", 10 + i>> >>, <<"iso_fit", <<"I", 10 + i>> >>,
       <<"messmittel", <<"M", 10 + i>> >>, <<"upper_tol", <<"U", 10 + i>> >>,
       <<"lower_tol", <<"L", 10 + i>> >>, <<"soll", <<"S", 10 + i>> >> >>

\* the same entry with the tolerances before the nominal size and the fit
MeasureEntryTolerancesFirst(i) ==
    << <<"upper_tol", <<"U", 10 + i>> >>, <<"lower_tol", <<"L", 10 + i>> >>,
       <<"messmittel", <<"M", 10 + i>> >>, <<"nominal", <<"N", 10 + i>> >>,
       <<"iso_fit", <<"I", 10 + i>> >>, <<"soll", <<"S", 10 + i>> >> >>

HeaderEntry(znrCell) ==
    << <<"zeichnungsnummer", znrCell>>, <<"auftrag", <<"B", 3>> >>,
       <<"position", <<"D", 3>> >>, <<"datum", <<"F", 3>> >>,
       <<"oberflaeche", <<"B", 4>> >>, <<"bemerkungen", <<"B", 5>> >> >>

\* cell_mapping after a mapping.json was read.  loaded is its truth value
\* ("if not self.cell_mapping"), object whether it is a dict; loaded = FALSE
\* is the empty dict _load_mapping leaves when the file is missing or no JSON
MappingStandard ==
    [loaded |-> TRUE, object |-> TRUE, header |-> HeaderEntry(<<"B", 2>>),
     measures |-> [i \in Slots |-> MeasureEntry(i)]]

\* a mapping that names the merged cell C2 and lists the tolerances first
MappingTolerancesFirst ==
    [loaded |-> TRUE, object |-> TRUE, header |-> HeaderEntry(<<"C", 2>>),
     measures |-> [i \in Slots |-> MeasureEntryTolerancesFirst(i)]]

MappingEmpty ==
    [loaded |-> FALSE, object |-> TRUE, header |-> <<>>,
     measures |-> [i \in Slots |-> <<>>]]

\* a mapping.json that holds a non-empty JSON list: true, and no dict
MappingList ==
    [loaded |-> TRUE, object |-> FALSE, header |-> <<>>,
     measures |-> [i \in Slots |-> <<>>]]

\* what open() and json.load() can give for mapping.json: no file, text that
\* is no JSON, a file that cannot be read as UTF-8 text, or a JSON value
MappingFile(kind, value) == [kind |-> kind, value |-> value]

MappingFiles ==
    { MappingFile("missing", MappingEmpty), MappingFile("garbage", MappingEmpty),
      MappingFile("unreadable", MappingEmpty),
      MappingFile("json", MappingEmpty), MappingFile("json", MappingList),
      MappingFile("json", MappingStandard), MappingFile("json", MappingTolerancesFirst) }

\* _load_mapping(): FileNotFoundError and JSONDecodeError show a dialog and
\* leave the empty dict; any other exception (PermissionError,
\* UnicodeDecodeError) leaves the constructor
_load_mapping(f) ==
    CASE f.kind \in {"missing", "garbage"} ->
            [raised |-> FALSE, cell_mapping |-> MappingEmpty, dialogs |-> <<"Mapping Fehler">>]
      [] f.kind = "unreadable" ->
            [raised |-> TRUE, cell_mapping |-> MappingEmpty, dialogs |-> <<>>]
      [] OTHER ->
            [raised |-> FALSE, cell_mapping |-> f.value, dialogs |-> <<>>]

\* key in map
HasKey(map, key) == \E i \in 1..Len(map) : map[i][1] = key

\* map[key]
CellOf(map, key) == map[CHOOSE i \in 1..Len(map) : map[i][1] = key][2]

\* write_cell(coord, value) of _save_protokoll
write_cell(sheet, coord, value) ==
    IF IsMergedCell(coord) THEN [sheet EXCEPT ![AnchorOf(coord)] = StrValue(value)]
    ELSE [sheet EXCEPT ![coord] = StrValue(value)]

\* _get_cell_value(sheet, cell_coord)
_get_cell_value(sheet, coord) ==
    IF IsMergedCell(coord) THEN sheet[AnchorOf(coord)] ELSE sheet[coord]

\* a sequence of <<key, value, wanted>>: each wanted value whose key the map
\* holds is written, in order
RECURSIVE WriteAll(_, _, _)
WriteAll(sheet, map, items) ==
    IF items = <<>> THEN sheet
    ELSE LET it == Head(items)
         IN  WriteAll(IF it[3] /\ HasKey(map, it[1])
                      THEN write_cell(sheet, CellOf(map, it[1]), it[2]) ELSE sheet,
                      map, Tail(items))

\* the header values _save_protokoll writes
HeaderItems(w) ==
    LET oberflaeche == Strip(w.oberflaeche_edit)
        bemerkungen == Strip(w.bemerkungen_edit)
    IN  << <<"zeichnungsnummer", Strip(w.zeichnungsnummer_field), TRUE>>,
           <<"auftrag", Strip(w.auftrag_edit), TRUE>>,
           <<"position", Strip(w.pos_edit), TRUE>>,
           <<"datum", DateToString(w.date_edit), TRUE>>,
           <<"oberflaeche", <<OberflaecheLabel, " ">> \o oberflaeche, oberflaeche # <<>> >>,
           <<"bemerkungen", <<BemerkungenLabel, " ">> \o bemerkungen, bemerkungen # <<>> >> >>

\* the values _save_protokoll writes for slot i
MeasureItems(w, i) ==
    << <<"nominal", w.nominal_fields[i], TRUE>>,
       <<"iso_fit", w.iso_fit_combos[i], TRUE>>,
       <<"messmittel", w.messmittel_combos[i], TRUE>>,
       <<"upper_tol", w.upper_tol_combos[i], TRUE>>,
       <<"lower_tol", w.lower_tol_combos[i], TRUE>>,
       <<"soll", w.soll_labels[i], TRUE>> >>

RECURSIVE WriteMeasuresFrom(_, _, _)
WriteMeasuresFrom(sheet, w, i) ==
    IF i \notin Slots THEN sheet
    ELSE WriteMeasuresFrom(WriteAll(sheet, w.cell_mapping.measures[i], MeasureItems(w, i)),
                           w, i + 1)

\* the sheet in memory when _save_protokoll calls workbook.save
FilledSheet(w) ==
    WriteMeasuresFrom(WriteAll(TemplateSheet, w.cell_mapping.header, HeaderItems(w)), w, 1)

\* the sheet as workbook.save writes it and load_workbook reads it back: a
\* cell holding the empty string is written without a value and read as None
StoredSheet(sheet) ==
    [c \in DOMAIN sheet |-> IF sheet[c] = StrValue(<<>>) THEN NoValue ELSE sheet[c]]

\* one pass of load's header loop: the field a key names takes the value
LoadHeaderKey(w, key, value_str) ==
    CASE key = "zeichnungsnummer" -> [w EXCEPT !.zeichnungsnummer_field = value_str]
      [] key = "auftrag" -> [w EXCEPT !.auftrag_edit = value_str]
      [] key = "position" -> [w EXCEPT !.pos_edit = value_str]
      [] key = "datum" ->
            IF DateFromString(value_str).ok
            THEN [w EXCEPT !.date_edit = DateFromString(value_str).date] ELSE w
      [] key = "oberflaeche" ->
            [w EXCEPT !.oberflaeche_edit = Strip(RemoveLabel(value_str, OberflaecheLabel))]
      [] key = "bemerkungen" ->
            [w EXCEPT !.bemerkungen_edit = Strip(RemoveLabel(value_str, BemerkungenLabel))]
      [] OTHER -> w

\* load's loop over header_map.items()
RECURSIVE LoadHeader(_, _, _)
LoadHeader(w, entries, sheet) ==
    IF entries = <<>> THEN w
    ELSE LET value == _get_cell_value(sheet, Head(entries)[2])
         IN  LoadHeader(IF value.k = "none" THEN w
                        ELSE LoadHeaderKey(w, Head(entries)[1], Strip(value.s)),
                        Tail(entries), sheet)

\* one pass of load's loop over cell_info.items()
LoadMeasureKey(w, i, key, value_str, rows) ==
    CASE key = "nominal" -> SetNominal(w, i, Replace(value_str, ".", ","), rows)
      [] key = "iso_fit" -> SetIsoFit(w, i, value_str, rows)
      [] key = "messmittel" -> SetMessmittel(w, i, value_str)
      [] key = "upper_tol" -> SetUpperTol(w, i, value_str)
      [] key = "lower_tol" -> SetLowerTol(w, i, value_str)
      [] OTHER -> w

RECURSIVE LoadMeasure(_, _, _, _, _)
LoadMeasure(w, i, entries, sheet, rows) ==
    IF entries = <<>> THEN w
    ELSE LET value == _get_cell_value(sheet, Head(entries)[2])
         IN  LoadMeasure(IF value.k = "none" THEN w
                         ELSE LoadMeasureKey(w, i, Head(entries)[1], value.s, rows),
                         i, Tail(entries), sheet, rows)

RECURSIVE LoadMeasuresFrom(_, _, _, _)
LoadMeasuresFrom(w, i, sheet, rows) ==
    IF i \notin Slots THEN w
    ELSE LoadMeasuresFrom(LoadMeasure(w, i, w.cell_mapping.measures[i], sheet, rows),
                          i + 1, sheet, rows)

\* the try block of _load_protokoll_from_excel for a workbook that opens
\* and has the sheet "Tabelle1"
LoadSheet(w, sheet, rows) ==
    LoadMeasuresFrom(LoadHeader(_clear_ui(w, rows), w.cell_mapping.header, sheet),
                     1, sheet, rows)

-----------------------------------------------------------------------------
(* MainWindow: arming a field and receiving picked values *)

NoTarget == [field |-> "none", i |-> 0]
ZeichnungsnummerField == [field |-> "zeichnungsnummer_field", i |-> 0]
NominalField(i) == [field |-> "nominal_fields", i |-> i]

\* the positions of ":" in s
Colons(s) == {i \in 1..Len(s) : s[i] = ":"}

One == [n |-> 1, d |-> 1]

RECURSIVE Gcd(_, _)
Gcd(a, b) == IF b = 0 THEN a ELSE Gcd(b, a % b)

\* the fraction a/b in lowest terms (b # 0)
Fraction(a, b) ==
    LET g == Gcd(Abs(a), Abs(b))
    IN  [n |-> a \div g, d |-> b \div g]

\* get_scale_factor that reads 'a:b' as b/a
get_scale_factor_inverted(w) ==
    LET text == Replace(Strip(w.scale_combo), ",", ".")
    IN  IF Colons(text) # {}
        THEN IF Cardinality(Colons(text)) = 1
             THEN LET c == CHOOSE i \in Colons(text) : TRUE
                      a == PyFloat(SubSeq(text, 1, c - 1))
                      b == PyFloat(SubSeq(text, c + 1, Len(text)))
                  IN  IF a.ok /\ b.ok /\ a.v # 0 THEN Fraction(b.v, a.v) ELSE One
             ELSE One
        ELSE IF PyFloat(text).ok THEN Fraction(PyFloat(text).v, UNIT) ELSE One

\* get_scale_factor(): the factor as a fraction n/d; 1.0 for a text that does
\* not parse, for a zero denominator and for more than one colon
get_scale_factor(w) ==
    LET text == Replace(Strip(w.scale_combo), ",", ".")
    IN  IF Colons(text) # {}
        THEN IF Cardinality(Colons(text)) = 1
             THEN LET c == CHOOSE i \in Colons(text) : TRUE
                      a == PyFloat(SubSeq(text, 1, c - 1))
                      b == PyFloat(SubSeq(text, c + 1, Len(text)))
                  IN  IF a.ok /\ b.ok /\ b.v # 0 THEN Fraction(a.v, b.v) ELSE One
             ELSE One
        ELSE IF PyFloat(text).ok THEN Fraction(PyFloat(text).v, UNIT) ELSE One

\* a / b rounded to the nearest unit
DivRound(a, b) ==
    LET neg == (a < 0) # (b < 0)
        q   == (2 * Abs(a) + Abs(b)) \div (2 * Abs(b))
    IN  IF neg THEN -q ELSE q

\* target_widget.setText(text)
SetTargetText(w, target, text, rows) ==
    IF target.field = "nominal_fields" THEN SetNominal(w, target.i, text, rows)
    ELSE [w EXCEPT !.zeichnungsnummer_field = text]

\* corrected_value_str for a drawn value and a scale factor n/d, and the
\* text of the except branch when value_str is no number
ShownValue(value_str, drawn, scale) ==
    LET real == IF (scale.n > 0) = (scale.d > 0) /\ scale.n # 0
                THEN DivRound(drawn.v * scale.d, scale.n)
                ELSE drawn.v
    IN  IF drawn.ok THEN Replace(FormatFixed(real, ValueDecimals, FALSE), ".", ",")
        ELSE Replace(value_str, ".", ",")

\* the text on_dimension_value_received writes for value_str
CorrectedValue(w, value_str) ==
    ShownValue(value_str, PyFloat(Replace(value_str, ",", ".")), get_scale_factor(w))

\* what a handler leaves: the form, the armed field, the dialogs it showed
Outcome(w, target, shown) == [w |-> w, target |-> target, dialogs |-> shown]

\* on_dimension_value_received(value_str)
on_dimension_value_received(w, target, value_str, rows) ==
    IF target # NoTarget
    THEN Outcome(SetTargetText(w, target, CorrectedValue(w, value_str), rows), NoTarget, <<>>)
    ELSE Outcome(w, target, <<"Hinweis">>)

\* on_text_value_received that leaves the field armed
on_text_value_received_stays_armed(w, target, value, rows) ==
    IF target # NoTarget
    THEN Outcome(SetTargetText(w, target, value, rows), target, <<>>)
    ELSE Outcome(w, target, <<"Hinweis">>)

\* on_text_value_received(value)
on_text_value_received(w, target, value, rows) ==
    IF target # NoTarget
    THEN Outcome(SetTargetText(w, target, value, rows), NoTarget, <<>>)
    ELSE Outcome(w, target, <<"Hinweis">>)

\* the slots connected to dimension_clicked and text_clicked, run for each
\* emitted signal in order
Receive(out, sig, rows) ==
    IF sig.signal = "dimension_clicked"
    THEN on_dimension_value_received(out.w, out.target, sig.value, rows)
    ELSE on_text_value_received(out.w, out.target, sig.value, rows)

\* what the slot left, after the dialogs shown before it
After(out, next) == Outcome(next.w, next.target, out.dialogs \o next.dialogs)

RECURSIVE Deliver(_, _, _)
Deliver(out, signals, rows) ==
    IF signals = <<>> THEN out
    ELSE Deliver(After(out, Receive(out, Head(signals), rows)), Tail(signals), rows)

-----------------------------------------------------------------------------
(* The drawings the model opens *)

\* a measured dimension with an extension line on x = 0 and its label at (2,2)
DimMeasured ==
    DimEnt(Number(1250000), <<>>,
           <<LineEnt(<<0, 0>>, <<0, 2>>), MTextEnt(<<2, 2>>, <<"1", "2", ",", "5">>)>>)

\* no numeric measurement; the override text holds 8,2, the label 9
DimOverride ==
    DimEnt(NoNumber, <<"D", "8", ",", "2", " ", "H", "7">>, <<TextEnt(<<3, 0>>, <<"9">>)>>)

\* no numeric measurement, the override text "<>"; the label holds R5
DimLabel ==
    DimEnt(NoNumber, <<"<", ">">>, <<MTextEnt(<<3, 3>>, <<"R", "5">>)>>)

\* no numeric measurement, an override text without a number; the second
\* text primitive holds -7.25
DimLabelSecond ==
    DimEnt(NoNumber, <<"R", "E", "F">>,
           <<TextEnt(<<1, 3>>, <<"R", "E", "F">>), TextEnt(<<1, 2>>, <<"-", "7", ".", "2", "5">>)>>)

\* no number anywhere
DimNoValue ==
    DimEnt(NoNumber, <<"R", "E", "F">>, <<TextEnt(<<2, 0>>, <<"R", "E", "F">>)>>)

\* a measured dimension without a text primitive: only its dimension line
DimNoText == DimEnt(Number(20 * UNIT), <<>>, <<LineEnt(<<1, 3>>, <<3, 3>>)>>)

\* measured, with an override text that holds another number
DimBoth ==
    DimEnt(Number(3012346), <<"3", "1">>, <<TextEnt(<<0, 3>>, <<"3", "1">>)>>)

TextA  == TextEnt(<<1, 1>>, <<" ", "A", "1", " ">>)
MTextB == MTextEnt(<<3, 1>>, <<"B", "7">>)

\* block references: a text two levels deep, and a dimension one level deep
InsertText == InsertEnt(<<InsertEnt(<<TextEnt(<<3, 2>>, <<"C", "3">>)>>)>>)
InsertDim  == InsertEnt(<<DimEnt(Number(5 * UNIT), <<>>, <<TextEnt(<<0, 1>>, <<"5">>)>>)>>)

EntityLib ==
    {DimMeasured, DimOverride, DimLabel, DimLabelSecond, DimNoValue, DimNoText,
     DimBoth, TextA, MTextB, TextNoInsert(<<"N", "0">>), InsertText, InsertDim}

Layouts == SeqsUpTo(EntityLib, MaxEntities)

\* what recover_readfile gives for a path: a document with a modelspace and
\* one paper space layout, or an exception
Document(msp, paper) == [ok |-> TRUE, msp |-> msp, paper |-> paper]
NoDocument == [ok |-> FALSE, msp |-> <<>>, paper |-> <<>>]

\* the files the user opens: a drawing with a dimension and a text, one whose
\* modelspace is empty, an empty one, and a file that does not parse
DxfFiles ==
    {Document(<<DimMeasured, TextA>>, <<>>), Document(<<>>, <<MTextB>>),
     Document(<<>>, <<>>), NoDocument}

\* _get_layout_to_display()
_get_layout_to_display(d) ==
    IF Len(d.msp) > 0 THEN d.msp
    ELSE IF Len(d.paper) > 0 THEN d.paper
    ELSE d.msp

Grid == (0..MaxCoord) \X (0..MaxCoord)

NoClick == [clicked |-> FALSE, pos |-> Origin, radius |-> 0]

-----------------------------------------------------------------------------
(* The handlers *)

\* MessprotokollWidget.__init__ within MainWindow.__init__: _load_mapping(),
\* then IsoFitsCalculator(data_dir), then the widgets of the form
MessprotokollWidget_init ==
    /\ app = "starting"
    /\ \E m \in {_load_mapping(mapping_file)} :
          /\ app' = IF m.raised THEN "crashed" ELSE LoadOutcome(tolerances_file)
          /\ tolerances_data' = IF ~m.raised /\ tolerances_file.kind = "list" /\ app' # "exited"
                                THEN tolerances_file.rows ELSE <<>>
          /\ available_fits' = IF app' = "running"
                               THEN <<<<>>>> \o SortedTexts(AllFits(tolerances_file.rows))
                               ELSE <<<<>>>>
          /\ dialogs' = m.dialogs \o (IF app' = "exited" THEN <<"Fataler Fehler">> ELSE <<>>)
          /\ protokoll_widget' = InitialWidget(m.cell_mapping)
    /\ last_op' = "__init__"
    /\ emitted' = <<>>
    /\ io' = NoIo
    /\ UNCHANGED <<tolerances_file, calc_args, calc_result, dxfVars, target_widget,
                   click, disk, edits, envVars>>

\* self.doc after load_dxf(filepath): recover_readfile either gives a
\* document or raises before the assignment
DocAfterLoad(d, f) == IF f.ok THEN f ELSE d

\* a failed load that drops the layout shown so far
LayoutDroppedOnFailure(layout, f) == IF f.ok THEN _get_layout_to_display(f) ELSE <<>>

\* self.active_layout after load_dxf(filepath): draw_dxf() runs only when
\* recover_readfile gave a document
LayoutAfterLoad(layout, f) == IF f.ok THEN _get_layout_to_display(f) ELSE layout

\* MainWindow.open_file / dropEvent: load_dxf(filepath) and draw_dxf()
load_dxf ==
    /\ app = "running"
    /\ \E f \in DxfFiles :
          /\ doc' = DocAfterLoad(doc, f)
          /\ active_layout' = LayoutAfterLoad(active_layout, f)
          /\ dialogs' = IF f.ok THEN <<>> ELSE <<"Fehler">>
    /\ last_op' = "load_dxf"
    /\ emitted' = <<>>
    /\ io' = NoIo
    /\ UNCHANGED <<fitVars, selection_mode, target_widget, protokoll_widget, click,
                   disk, edits, envVars>>

\* the mode a click into a field asks for: _on_zeichnungsnummer_field_selected
\* emits 'text', _on_measure_field_selected 'dimension'
SelectedMode(t) == IF t = ZeichnungsnummerField THEN "text" ELSE "dimension"

\* set_selection_mode without effect
set_selection_mode_ignored(current, mode) == current

\* set_selection_mode(mode)
set_selection_mode(current, mode) ==
    IF mode \in {"dimension", "text"} THEN mode ELSE current

\* the fields that can be armed
ArmableFields == {ZeichnungsnummerField} \cup {NominalField(i) : i \in Slots}

\* a click into the drawing-number field or a nominal field:
\* _on_zeichnungsnummer_field_selected / _on_measure_field_selected, then
\* on_field_selected and set_selection_mode
FieldClickOf(fields) ==
    /\ app = "running"
    /\ \E t \in fields :
          /\ target_widget' = t
          /\ selection_mode' = set_selection_mode(selection_mode, SelectedMode(t))
    /\ last_op' = "field_selected"
    /\ dialogs' = <<>>
    /\ emitted' = <<>>
    /\ io' = NoIo
    /\ UNCHANGED <<fitVars, doc, active_layout, protokoll_widget, click, disk, edits,
                   envVars>>

FieldClick == FieldClickOf(ArmableFields)

\* a click into the first nominal field
NominalClick == FieldClickOf({NominalField(1)})

\* the signals a left click at pos with the given search radius emits; none
\* without a layout that holds entities ("if not self.active_layout")
Picked(pos, radius) ==
    IF active_layout = <<>> THEN NoSignal
    ELSE IF selection_mode = "dimension"
         THEN find_closest_dimension(active_layout, pos, radius)
         ELSE find_closest_text(active_layout, pos, radius)

\* handle_mouse_press for the left button (the Entity Inspector only prints),
\* with the slots connected to the emitted signals
handle_mouse_press ==
    /\ app = "running"
    /\ \E pos \in Grid, radius \in 1..MaxRadius :
          \E signals \in {Picked(pos, radius)} :
             \E out \in {Deliver(Outcome(protokoll_widget, target_widget, <<>>), signals,
                                 tolerances_data)} :
                /\ emitted' = signals
                /\ click' = [clicked |-> TRUE, pos |-> pos, radius |-> radius]
                /\ protokoll_widget' = out.w
                /\ target_widget' = out.target
                /\ dialogs' = out.dialogs
    /\ last_op' = "handle_mouse_press"
    /\ io' = NoIo
    /\ UNCHANGED <<fitVars, dxfVars, disk, edits, envVars>>

\* the texts the user of the model enters into a slot and into the header
NominalTexts == {<<>>, <<"1", "0">>}
FitTexts     == {<<>>, <<"H", "7">>}
UpperTexts   == {<<>>, <<"+", "0", ",", "0", "2">>, <<"x">>}
LowerTexts   == {<<>>, <<"-", "0", ".", "0", "1">>}
HeaderTexts  == {<<>>, <<" ", "Z", "1", " ">>}

\* more texts for a slot: a size of the second row of the table, a size no
\* row holds, a text that is no number; a fit class the table does not hold;
\* a lower deviation that is no number
TypedNominalTexts == NominalTexts \cup {<<"1", "2">>, <<"3", "0">>, <<"x">>}
TypedFitTexts     == FitTexts \cup {<<"k", "6">>}
TypedLowerTexts   == LowerTexts \cup {<<"-", ",">>}

HeaderFields ==
    {"zeichnungsnummer_field", "auftrag_edit", "pos_edit", "oberflaeche_edit",
     "bemerkungen_edit"}

\* the fields _save_protokoll requires
RequiredFields == {"zeichnungsnummer_field", "auftrag_edit", "pos_edit"}

\* the slots the user fills in by hand before saving and loading
FilledSlots == {i \in Slots : i <= MaxFilled}

\* what every edit of the form leaves alone or resets
EditFrame ==
    /\ edits' = edits + 1
    /\ last_op' = "edit"
    /\ dialogs' = <<>>
    /\ emitted' = <<>>
    /\ io' = NoIo
    /\ UNCHANGED <<fitVars, dxfVars, click, disk, envVars>>

\* on_field_manually_edited(widget)
on_field_manually_edited(target, widget) ==
    IF target = widget THEN NoTarget ELSE target

\* the user replaces the text of a nominal field: textChanged runs
\* _trigger_iso_fit_calculation, textEdited runs on_field_manually_edited
EditNominalOf(S, texts) ==
    /\ app = "running" /\ edits < MaxEdits
    /\ \E i \in S, text \in texts :
          /\ text # protokoll_widget.nominal_fields[i]
          /\ protokoll_widget' = SetNominal(protokoll_widget, i, text, tolerances_data)
          /\ target_widget' = on_field_manually_edited(target_widget, NominalField(i))
    /\ EditFrame

\* the user picks or types a fit class: currentTextChanged
EditIsoFitOf(S, texts) ==
    /\ app = "running" /\ edits < MaxEdits
    /\ \E i \in S, text \in texts :
          /\ text # protokoll_widget.iso_fit_combos[i]
          /\ protokoll_widget' = SetIsoFit(protokoll_widget, i, text, tolerances_data)
    /\ UNCHANGED target_widget
    /\ EditFrame

\* the user picks a measuring tool
EditMessmittelOf(S) ==
    /\ app = "running" /\ edits < MaxEdits
    /\ \E i \in S, text \in MESSMITTEL_OPTIONS :
          /\ text # protokoll_widget.messmittel_combos[i]
          /\ protokoll_widget' = SetMessmittel(protokoll_widget, i, text)
    /\ UNCHANGED target_widget
    /\ EditFrame

\* the user picks or types an upper deviation: currentTextChanged
EditUpperTolOf(S) ==
    /\ app = "running" /\ edits < MaxEdits
    /\ \E i \in S, text \in UpperTexts :
          /\ text # protokoll_widget.upper_tol_combos[i]
          /\ protokoll_widget' = SetUpperTol(protokoll_widget, i, text)
    /\ UNCHANGED target_widget
    /\ EditFrame

\* the user picks or types a lower deviation: currentTextChanged
EditLowerTolOf(S, texts) ==
    /\ app = "running" /\ edits < MaxEdits
    /\ \E i \in S, text \in texts :
          /\ text # protokoll_widget.lower_tol_combos[i]
          /\ protokoll_widget' = SetLowerTol(protokoll_widget, i, text)
    /\ UNCHANGED target_widget
    /\ EditFrame

\* the user replaces the text of a header field; no slot of MainWindow is
\* connected to the editing of these, the drawing-number field included
EditHeaderOf(fields) ==
    /\ app = "running" /\ edits < MaxEdits
    /\ \E f \in fields, text \in HeaderTexts :
          /\ text # protokoll_widget[f]
          /\ protokoll_widget' = [protokoll_widget EXCEPT ![f] = text]
    /\ UNCHANGED target_widget
    /\ EditFrame

\* the user picks a date
EditDate ==
    /\ app = "running" /\ edits < MaxEdits
    /\ \E date \in {Today, OtherDay} :
          /\ date # protokoll_widget.date_edit
          /\ protokoll_widget' = [protokoll_widget EXCEPT !.date_edit = date]
    /\ UNCHANGED target_widget
    /\ EditFrame

\* the edits of the slots that are filled in before saving
EditNominal    == EditNominalOf(FilledSlots, NominalTexts)
EditIsoFit     == EditIsoFitOf(FilledSlots, FitTexts)
EditMessmittel == EditMessmittelOf(FilledSlots)
EditUpperTol   == EditUpperTolOf(FilledSlots)
EditLowerTol   == EditLowerTolOf(FilledSlots, LowerTexts)
EditHeader     == EditHeaderOf(HeaderFields) \/ EditDate

\* the edits of any slot, with the wider choice of texts
TypeNominal  == EditNominalOf(Slots, TypedNominalTexts)
TypeIsoFit   == EditIsoFitOf(Slots, TypedFitTexts)
TypeUpperTol == EditUpperTolOf(Slots)
TypeLowerTol == EditLowerTolOf(Slots, TypedLowerTexts)

\* the scale texts the model follows: items of the combo box (line 470),
\* and typed texts: a ratio whose quotient does not end, plain numbers with
\* point and comma, zero and negative factors, a zero denominator, two
\* colons, texts that are no number, the empty text
ScaleTexts ==
    { <<"2", ":", "1">>, <<"1", ":", "2">>, <<"5", ":", "1">>, <<"1", ":", "1", "0">>,
      <<"3", ":", "1">>, <<" ", "1", ":", "4", " ">>, <<"2">>, <<"0", ",", "5">>,
      <<"0">>, <<"-", "2">>, <<"0", ":", "5">>, <<"1", ":", "-", "2">>,
      <<"1", ":", "0">>, <<"1", ":", "2", ":", "1">>, <<"x">>, <<"x", ":", "2">>,
      <<"1", ":">>, <<>> }

\* the user picks an item of the scale combo or types a scale: no slot is
\* connected to it
EditScale ==
    /\ app = "running" /\ edits < MaxTyped
    /\ \E text \in ScaleTexts :
          /\ text # protokoll_widget.scale_combo
          /\ protokoll_widget' = [protokoll_widget EXCEPT !.scale_combo = text]
    /\ UNCHANGED target_widget
    /\ EditFrame

\* the edits of the drawing-number field, and of the three required fields
EditZeichnungsnummer == EditHeaderOf({"zeichnungsnummer_field"})
EditRequired         == EditHeaderOf(RequiredFields)

\* f"{znr}+{auftrag}+{pos}.xlsx"; the suffix is one element of the text
SuggestedName(w) ==
    Strip(w.zeichnungsnummer_field) \o <<"+">> \o Strip(w.auftrag_edit) \o <<"+">>
        \o Strip(w.pos_edit) \o <<".xlsx">>

\* what _save_protokoll does
Saved(shown, did) == [dialogs |-> shown, io |-> did]

\* _save_protokoll() that asks for a path before it looks at the template
SaveResultTemplateUnchecked(w, template, answer) ==
    IF ~w.cell_mapping.loaded THEN Saved(<<"Speichern nicht moeglich">>, NoIo)
    ELSE IF \/ Strip(w.zeichnungsnummer_field) = <<>>
            \/ Strip(w.auftrag_edit) = <<>>
            \/ Strip(w.pos_edit) = <<>>
         THEN Saved(<<"Fehlende Eingabe">>, NoIo)
    ELSE IF answer = "cancelled"
         THEN Saved(<<>>, Io("save", SuggestedName(w), "none", FALSE))
    ELSE IF ~w.cell_mapping.object \/ answer = "unwritable"
         THEN Saved(<<"Speicherfehler">>, Io("save", SuggestedName(w), "template", FALSE))
    ELSE Saved(<<"Erfolg">>, Io("save", SuggestedName(w), "template", TRUE))

\* _save_protokoll() up to its message box, for the template being in place
\* or not and the answer of the file dialog: a path, no path, or a path
\* workbook.save cannot write.  A cell_mapping that is no dict raises
\* AttributeError at its first .get, inside the try block
SaveResult(w, template, answer) ==
    IF ~w.cell_mapping.loaded THEN Saved(<<"Speichern nicht moeglich">>, NoIo)
    ELSE IF \/ Strip(w.zeichnungsnummer_field) = <<>>
            \/ Strip(w.auftrag_edit) = <<>>
            \/ Strip(w.pos_edit) = <<>>
         THEN Saved(<<"Fehlende Eingabe">>, NoIo)
    ELSE IF ~template THEN Saved(<<"Vorlage fehlt">>, NoIo)
    ELSE IF answer = "cancelled"
         THEN Saved(<<>>, Io("save", SuggestedName(w), "none", FALSE))
    ELSE IF ~w.cell_mapping.object \/ answer = "unwritable"
         THEN Saved(<<"Speicherfehler">>, Io("save", SuggestedName(w), "template", FALSE))
    ELSE Saved(<<"Erfolg">>, Io("save", SuggestedName(w), "template", TRUE))

\* the file workbook.save writes for the form w
WrittenFile(w) == [exists |-> TRUE, sheet |-> StoredSheet(FilledSheet(w)), form |-> w]

\* _save_protokoll(), with the answer of the file dialog
_save_protokoll ==
    /\ app = "running"
    /\ \E answer \in {"chosen", "cancelled", "unwritable"} :
          \E out \in {SaveResult(protokoll_widget, template_exists, answer)} :
             /\ dialogs' = out.dialogs
             /\ io' = out.io
             /\ disk' = IF out.io.written THEN WrittenFile(protokoll_widget) ELSE disk
    /\ last_op' = "save"
    /\ emitted' = <<>>
    /\ UNCHANGED <<fitVars, dxfVars, target_widget, protokoll_widget, click, edits,
                   envVars>>

\* what _load_protokoll_from_excel does
Loaded(w, shown, did) == [w |-> w, dialogs |-> shown, io |-> did]

\* the try block of _load_protokoll_from_excel for the chosen path, cleared
\* being the form _clear_ui() left: the path does not exist
\* (FileNotFoundError), is no workbook, has no sheet "Tabelle1" (KeyError), or
\* is the file the form was saved to
LoadRead(w, cleared, path, sheet, rows) ==
    CASE path = "missing" -> Loaded(cleared, <<"Fehler">>, Io("open", <<>>, path, FALSE))
      [] path = "corrupt" -> Loaded(cleared, <<"Ladefehler">>, Io("open", <<>>, path, FALSE))
      [] path = "nosheet" -> Loaded(cleared, <<"Excel-Fehler">>, Io("open", <<>>, path, FALSE))
      [] OTHER ->
            IF ~w.cell_mapping.object
            THEN Loaded(cleared, <<"Ladefehler">>, Io("open", <<>>, path, FALSE))
            ELSE Loaded(LoadSheet(w, sheet, rows), <<"Erfolg">>, Io("open", <<>>, path, FALSE))

\* _load_protokoll_from_excel() up to its message box
LoadResult(w, path, sheet, rows) ==
    IF ~w.cell_mapping.loaded THEN Loaded(w, <<"Aktion nicht moeglich">>, NoIo)
    ELSE IF path = "none" THEN Loaded(w, <<>>, Io("open", <<>>, "none", FALSE))
    ELSE LoadRead(w, _clear_ui(w, rows), path, sheet, rows)

\* the answers of the open dialog: no file, a path that does not exist, a
\* file that is no workbook, a workbook without the sheet, the saved file
OpenPaths == {"none", "missing", "corrupt", "nosheet", "saved"}

\* _load_protokoll_from_excel(), with the answer of the file dialog
_load_protokoll_from_excel ==
    /\ app = "running"
    /\ \E path \in OpenPaths :
          /\ path = "saved" => disk.exists
          /\ \E out \in {LoadResult(protokoll_widget, path, disk.sheet, tolerances_data)} :
                /\ protokoll_widget' = out.w
                /\ dialogs' = out.dialogs
                /\ io' = out.io
    /\ last_op' = "load"
    /\ emitted' = <<>>
    /\ UNCHANGED <<fitVars, dxfVars, target_widget, click, disk, edits, envVars>>

\* _previous_page()
_previous_page(w) ==
    IF w.current_page > 0
    THEN _update_page_view([w EXCEPT !.current_page = w.current_page - 1])
    ELSE w

\* _next_page() that does not look at the last page
_next_page_unguarded(w) ==
    _update_page_view([w EXCEPT !.current_page = w.current_page + 1])

\* _next_page()
_next_page(w) ==
    IF w.current_page < total_pages - 1
    THEN _update_page_view([w EXCEPT !.current_page = w.current_page + 1])
    ELSE w

\* what a click on a pager button leaves alone or resets
PagerFrame ==
    /\ dialogs' = <<>>
    /\ emitted' = <<>>
    /\ io' = NoIo
    /\ UNCHANGED <<fitVars, dxfVars, target_widget, click, disk, edits, envVars>>

\* a click on "<< Zurueck"
PreviousClicked ==
    /\ app = "running"
    /\ protokoll_widget' = _previous_page(protokoll_widget)
    /\ last_op' = "_previous_page"
    /\ PagerFrame

\* a click on "Vor >>"
NextClicked ==
    /\ app = "running"
    /\ protokoll_widget' = _next_page(protokoll_widget)
    /\ last_op' = "_next_page"
    /\ PagerFrame

-----------------------------------------------------------------------------
(* Specifications *)

\* the table of a correct tolerances.json
GoodTable ==
    << Entry(Str(<<"H", "7">>), Num(6), Num(10), Num(15), Num(0)),
       Entry(Str(<<"H", "7">>), Num(10), Num(18), Num(18), Num(0)) >>

NoDisk == [exists |-> FALSE, sheet |-> TemplateSheet, form |-> InitialWidget(MappingEmpty)]

\* everything but the tolerance table, after construction
InitRest(mapping) ==
    /\ dialogs = <<>>
    /\ calc_args = NoCall
    /\ calc_result = None
    /\ last_op = "none"
    /\ doc = NoDocument
    /\ active_layout = <<>>
    /\ selection_mode = "dimension"
    /\ target_widget = NoTarget
    /\ protokoll_widget = InitialWidget(mapping)
    /\ emitted = <<>>
    /\ click = NoClick
    /\ disk = NoDisk
    /\ edits = 0
    /\ mapping_file = MappingFile("json", mapping)
    /\ template_exists = TRUE
    /\ io = NoIo

\* the running application with a correct tolerance table
InitRunning(mapping) ==
    /\ tolerances_file = JsonList(GoodTable)
    /\ app = "running"
    /\ tolerances_data = GoodTable
    /\ available_fits = <<<<>>>> \o SortedTexts(AllFits(GoodTable))
    /\ InitRest(mapping)

\* the process before IsoFitsCalculator is constructed, for any tolerances.json
InitFits ==
    /\ tolerances_file \in Files
    /\ app = "starting"
    /\ tolerances_data = <<>>
    /\ available_fits = <<<<>>>>
    /\ InitRest(MappingStandard)

NextFits == LoadData \/ Calculate

\* start-up and tolerance lookups
SpecFits == InitFits /\ [][NextFits]_vars

\* the running application with no field armed, any drawing of the model
\* loaded and either selection mode
InitPick ==
    /\ tolerances_file = JsonList(GoodTable)
    /\ app = "running"
    /\ tolerances_data = GoodTable
    /\ available_fits = <<<<>>>> \o SortedTexts(AllFits(GoodTable))
    /\ dialogs = <<>>
    /\ calc_args = NoCall
    /\ calc_result = None
    /\ last_op = "none"
    /\ \E l \in Layouts \ {<<>>} : doc = Document(l, <<>>) /\ active_layout = l
    /\ selection_mode \in {"dimension", "text"}
    /\ target_widget = NoTarget
    /\ protokoll_widget = InitialWidget(MappingStandard)
    /\ emitted = <<>>
    /\ click = NoClick
    /\ disk = NoDisk
    /\ edits = 0
    /\ mapping_file = MappingFile("json", MappingStandard)
    /\ template_exists = TRUE
    /\ io = NoIo

NextPick == handle_mouse_press

\* left clicks into a loaded drawing
SpecPick == InitPick /\ [][NextPick]_vars

InitApp == InitRunning(MappingStandard)

NextApp == load_dxf \/ FieldClick \/ handle_mouse_press

\* opening drawings, arming fields and picking into them
SpecApp == InitApp /\ [][NextApp]_vars

\* the running application with either mapping.json, the form empty or its
\* three required header fields filled in
InitForm ==
    /\ tolerances_file = JsonList(GoodTable)
    /\ app = "running"
    /\ tolerances_data = GoodTable
    /\ available_fits = <<<<>>>> \o SortedTexts(AllFits(GoodTable))
    /\ dialogs = <<>>
    /\ calc_args = NoCall
    /\ calc_result = None
    /\ last_op = "none"
    /\ doc = NoDocument
    /\ active_layout = <<>>
    /\ selection_mode = "dimension"
    /\ target_widget = NoTarget
    /\ \E mapping \in {MappingStandard, MappingTolerancesFirst}, text \in HeaderTexts :
          protokoll_widget = [InitialWidget(mapping) EXCEPT
                                 !.zeichnungsnummer_field = text,
                                 !.auftrag_edit = text,
                                 !.pos_edit = text]
    /\ mapping_file = MappingFile("json", protokoll_widget.cell_mapping)
    /\ template_exists = TRUE
    /\ io = NoIo
    /\ emitted = <<>>
    /\ click = NoClick
    /\ disk = NoDisk
    /\ edits = 0

NextForm ==
    \/ EditNominal \/ EditIsoFit \/ EditMessmittel \/ EditUpperTol \/ EditLowerTol
    \/ EditHeader \/ _save_protokoll \/ _load_protokoll_from_excel

\* filling in the form, saving it and loading it back
SpecForm == InitForm /\ [][NextForm]_vars

\* the process before MessprotokollWidget is constructed, for any
\* mapping.json, with LEERFORMULAR.xlsx in place or not
InitFiles ==
    /\ tolerances_file = JsonList(GoodTable)
    /\ app = "starting"
    /\ tolerances_data = <<>>
    /\ available_fits = <<<<>>>>
    /\ dialogs = <<>>
    /\ calc_args = NoCall
    /\ calc_result = None
    /\ last_op = "none"
    /\ doc = NoDocument
    /\ active_layout = <<>>
    /\ selection_mode = "dimension"
    /\ target_widget = NoTarget
    /\ protokoll_widget = InitialWidget(MappingEmpty)
    /\ emitted = <<>>
    /\ click = NoClick
    /\ disk = NoDisk
    /\ edits = 0
    /\ mapping_file \in MappingFiles
    /\ template_exists \in BOOLEAN
    /\ io = NoIo

NextFiles ==
    MessprotokollWidget_init \/ EditRequired \/ _save_protokoll \/ _load_protokoll_from_excel

\* start-up with any mapping.json, then the required fields, save and load
SpecFiles == InitFiles /\ [][NextFiles]_vars

NextSlots == TypeNominal \/ TypeIsoFit \/ TypeUpperTol \/ TypeLowerTol

\* typing into the fields of the slots
SpecSlots == InitApp /\ [][NextSlots]_vars

\* typing into a field that can be armed, between clicks and picks
TypeWhilePicking == edits < MaxTyped /\ (EditNominal \/ EditZeichnungsnummer)

NextArm == load_dxf \/ FieldClick \/ handle_mouse_press \/ TypeWhilePicking

\* opening drawings, arming fields, picking into them and typing into them
SpecArm == InitApp /\ [][NextArm]_vars

\* the drawings of one dimension each: measured, with a negative number in
\* a label, measured with more decimals than are shown
ScaleLayouts == {<<DimMeasured>>, <<DimLabelSecond>>, <<DimBoth>>}

\* the running application with a drawing of one dimension loaded, the
\* scale as constructed, no field armed
InitScale ==
    /\ tolerances_file = JsonList(GoodTable)
    /\ app = "running"
    /\ tolerances_data = GoodTable
    /\ available_fits = <<<<>>>> \o SortedTexts(AllFits(GoodTable))
    /\ dialogs = <<>>
    /\ calc_args = NoCall
    /\ calc_result = None
    /\ last_op = "none"
    /\ \E l \in ScaleLayouts : doc = Document(l, <<>>) /\ active_layout = l
    /\ selection_mode = "dimension"
    /\ target_widget = NoTarget
    /\ protokoll_widget = InitialWidget(MappingStandard)
    /\ emitted = <<>>
    /\ click = NoClick
    /\ disk = NoDisk
    /\ edits = 0
    /\ mapping_file = MappingFile("json", MappingStandard)
    /\ template_exists = TRUE
    /\ io = NoIo

NextScale == EditScale \/ NominalClick \/ handle_mouse_press

\* setting the scale, arming a nominal field and picking dimensions into it
SpecScale == InitScale /\ [][NextScale]_vars

NextPager ==
    PreviousClicked \/ NextClicked \/ EditNominal \/ EditIsoFit \/ EditUpperTol \/ EditMessmittel

\* paging through the measure blocks of a form that is being filled in
SpecPager == InitApp /\ [][NextPager]_vars

-----------------------------------------------------------------------------
(* Claims about the tolerance table *)

\* the rows of the loaded table that satisfy both conditions of a lookup:
\* the class equals the label case-insensitively and lower < size <= upper
MatchingRows(rows, size, fit) ==
    {i \in 1..Len(rows) :
        /\ Lower(rows[i].toleranzklasse.s) = Lower(fit)
        /\ rows[i].lowerlimit.n * UNIT < size
        /\ size <= rows[i].upperlimit.n * UNIT}

TableOfEntries == \A i \in 1..Len(tolerances_data) : IsToleranceEntry(tolerances_data[i])

WellFormedFile(f) ==
    f.kind = "list" /\ \A i \in 1..Len(f.rows) : IsToleranceEntry(f.rows[i])

\* C7 as claimed: with tolerances.json missing or malformed (no JSON, JSON
\* that is no list of records, records lacking a field) the application
\* never reaches a running state.
C7_MalformedTableIsFatal ==
    ~WellFormedFile(tolerances_file) => app # "running"

\* C8: a lookup gives its caller a pair or None, never an exception, and
\* leaves the table and the list of available fits as they were; also on an
\* empty table, a label no row has, and rows with absent or non-numeric
\* fields.
C8_LookupIsPureQuery ==
    [][last_op' = "calculate" =>
        /\ calc_result'.kind \in {"pair", "none"}
        /\ tolerances_data' = tolerances_data
        /\ available_fits' = available_fits]_vars

\* C8's case: the scan of the loaded table hit an absent or non-numeric field
\* and the caller got None
C8_Witness ==
    /\ last_op = "calculate"
    /\ ScanEntries(tolerances_data, calc_args.size, calc_args.fit).kind = "raised"
    /\ calc_result.kind = "none"

-----------------------------------------------------------------------------
(* Claims about picking *)

\* the DIMENSION entities of a layout in traversal order, block references
\* expanded
RECURSIVE DimensionsOf(_)
DimensionsOf(entities) ==
    IF entities = <<>> THEN <<>>
    ELSE LET e == Head(entities)
         IN  (CASE e.type = "DIMENSION" -> <<e>>
                [] e.type = "INSERT" -> DimensionsOf(e.subs)
                [] OTHER -> <<>>)
             \o DimensionsOf(Tail(entities))

\* the TEXT and MTEXT entities of a layout in traversal order, block
\* references expanded
RECURSIVE TextsOf(_)
TextsOf(entities) ==
    IF entities = <<>> THEN <<>>
    ELSE LET e == Head(entities)
         IN  (CASE IsText(e) -> <<e>>
                [] e.type = "INSERT" -> TextsOf(e.subs)
                [] OTHER -> <<>>)
             \o TextsOf(Tail(entities))

\* the text anchor of a dimension: the insertion point of its first text
\* primitive
HasAnchor(dim) == FirstText(dim.subs) # 0 /\ dim.subs[FirstText(dim.subs)].has_insert
Anchor(dim) == dim.subs[FirstText(dim.subs)].insert

DimensionSignal(v) ==
    <<[signal |-> "dimension_clicked", value |-> FormatFixed(v, ValueDecimals, FALSE)]>>

DimensionPick == click.clicked /\ selection_mode = "dimension"
TextPick == click.clicked /\ selection_mode = "text"

FarFromAll(layout, mode, pos, radius) ==
    IF mode = "dimension"
    THEN \A k \in 1..Len(DimensionsOf(layout)) :
            LET dist == DimensionDist(DimensionsOf(layout)[k], pos)
            IN  dist.fin => dist.d > Radius4(radius)
    ELSE \A k \in 1..Len(TextsOf(layout)) :
            LET e == TextsOf(layout)[k]
            IN  e.has_insert => Dist4(pos, e.insert) > Radius4(radius)

\* C3: a left click farther than the search radius from every candidate, in
\* dimension mode and in text mode, emits no signal, shows no dialog, changes
\* no form field and leaves the armed field armed.
C3_FarClickIsSilent ==
    [][(last_op' = "handle_mouse_press"
          /\ FarFromAll(active_layout, selection_mode, click'.pos, click'.radius))
       => /\ emitted' = <<>>
          /\ dialogs' = <<>>
          /\ protokoll_widget' = protokoll_widget
          /\ target_widget' = target_widget]_vars

\* C3's case: a field is armed, the layout holds a dimension, and the last
\* click was farther than its radius from it
C3_Witness ==
    /\ last_op = "handle_mouse_press"
    /\ target_widget # NoTarget
    /\ selection_mode = "dimension"
    /\ DimensionsOf(active_layout) # <<>>
    /\ FarFromAll(active_layout, selection_mode, click.pos, click.radius)
    /\ emitted = <<>>

\* squared distances as fractions n/d with d > 0
Rat(n, d) == [n |-> n, d |-> d]
RatLess(x, y) == x.n * y.d < y.n * x.d
RatLeq(x, y) == x.n * y.d <= y.n * x.d

\* the squared distance of p to the segment a-b: the projection parameter is
\* clamped to [0,1], a segment of length zero gives the distance to a
SegDist2(p, a, b) ==
    LET abx  == b[1] - a[1]
        aby  == b[2] - a[2]
        apx  == p[1] - a[1]
        apy  == p[2] - a[2]
        len2 == abx * abx + aby * aby
        dot  == apx * abx + apy * aby
    IN  IF len2 = 0 \/ dot <= 0 THEN Rat(apx * apx + apy * apy, 1)
        ELSE IF dot >= len2
             THEN Rat((p[1] - b[1]) * (p[1] - b[1]) + (p[2] - b[2]) * (p[2] - b[2]), 1)
        ELSE Rat((apx * apx + apy * apy) * len2 - dot * dot, len2)

\* the squared distances of pos to the rendered primitives of a dimension:
\* to the anchor of each text and to each line
PrimitiveScores(dim, pos) ==
    {Rat(Dist4(pos, dim.subs[i].insert) \div 4, 1) :
        i \in {j \in 1..Len(dim.subs) : IsText(dim.subs[j]) /\ dim.subs[j].has_insert}}
    \cup {SegDist2(pos, dim.subs[i].a, dim.subs[i].b) :
        i \in {j \in 1..Len(dim.subs) : dim.subs[j].type = "LINE"}}

\* the score of a dimension that has primitives: the minimum of those distances
Score(dim, pos) ==
    CHOOSE s \in PrimitiveScores(dim, pos) :
        \A t \in PrimitiveScores(dim, pos) : RatLeq(s, t)

\* C4 as claimed: in dimension mode a dimension is a candidate iff the minimum
\* over its primitives of the distance to a text anchor and the clamped
\* distance to a line is below the radius, and the value emitted is that of a
\* candidate of the smallest score; so a click on an extension line within the
\* radius selects the dimension also when its text anchor is beyond the radius.
C4_ScoreOverPrimitives ==
    DimensionPick =>
        LET D    == DimensionsOf(active_layout)
            r2   == Rat(click.radius * click.radius, 1)
            cand == {k \in 1..Len(D) :
                        /\ get_dimension_value(D[k]).ok
                        /\ \E s \in PrimitiveScores(D[k], click.pos) : RatLess(s, r2)}
            best == {k \in cand : \A j \in cand :
                        RatLeq(Score(D[k], click.pos), Score(D[j], click.pos))}
        IN  IF cand = {} THEN emitted = <<>>
            ELSE \E k \in best : emitted = DimensionSignal(get_dimension_value(D[k]).v)

\* the first signed decimal number of a text, a decimal comma accepted
FirstNumber(text) == SearchNumber(Replace(text, ",", "."))

\* the value the preference order gives a dimension: the measurement, else
\* the number of the override text, else the number of the rendered label
PreferredValue(dim) ==
    IF dim.measurement.ok THEN dim.measurement
    ELSE IF FirstNumber(dim.text).ok THEN FirstNumber(dim.text)
    ELSE LabelNumber(dim.subs)

\* the dimensions of the layout within the radius of the click
DimensionsWithin ==
    LET D == DimensionsOf(active_layout)
    IN  {k \in 1..Len(D) : Within(DimensionDist(D[k], click.pos), click.radius)}

\* C9: the value reported for a dimension is its measurement if that is
\* numeric, otherwise the first signed decimal number of its override text,
\* otherwise the first signed decimal number of its rendered label; a later
\* source is used only when every earlier one gives no number; the string
\* emitted is that value with 4 decimal places.  Stated for the clicks that
\* have one dimension within their radius.
C9_ValuePreferenceOrder ==
    (DimensionPick /\ Cardinality(DimensionsWithin) = 1) =>
        LET D == DimensionsOf(active_layout)
            k == CHOOSE i \in DimensionsWithin : TRUE
        IN  IF PreferredValue(D[k]).ok
            THEN emitted = DimensionSignal(PreferredValue(D[k]).v)
            ELSE emitted = <<>>

\* C9's case: the one dimension within the radius has no numeric measurement,
\* its override text and its label hold different numbers, and the number of
\* the override text was emitted
C9_Witness ==
    /\ DimensionPick /\ Cardinality(DimensionsWithin) = 1
    /\ LET D == DimensionsOf(active_layout)
           k == CHOOSE i \in DimensionsWithin : TRUE
       IN  /\ ~D[k].measurement.ok
           /\ FirstNumber(D[k].text).ok
           /\ LabelNumber(D[k].subs).ok
           /\ LabelNumber(D[k].subs) # FirstNumber(D[k].text)
           /\ emitted = DimensionSignal(FirstNumber(D[k].text).v)

\* the texts of the layout whose insertion point is strictly within the
\* radius of the click
TextsWithin ==
    LET T == TextsOf(active_layout)
    IN  {k \in 1..Len(T) :
            T[k].has_insert /\ Dist4(click.pos, T[k].insert) < Radius4(click.radius)}

\* C10: in text mode, when some TEXT or MTEXT of the layout, at any depth of
\* block references, has its insertion point strictly within the radius, the
\* click emits exactly one value: the trimmed plain text of one of those whose
\* insertion point is nearest to the pick point.
C10_NearestTextTrimmed ==
    (TextPick /\ TextsWithin # {}) =>
        LET T == TextsOf(active_layout)
        IN  \E k \in TextsWithin :
               /\ \A j \in TextsWithin :
                     Dist4(click.pos, T[k].insert) <= Dist4(click.pos, T[j].insert)
               /\ emitted = <<[signal |-> "text_clicked",
                               value |-> Strip(TextContent(T[k]))]>>

\* C10's case: a text nested in a block reference is the nearer of two texts
\* within the radius, comes last in the layout, and its text was emitted
C10_Witness ==
    /\ TextPick
    /\ Len(active_layout) = 2
    /\ IsText(active_layout[1]) /\ active_layout[2].type = "INSERT"
    /\ Cardinality(TextsWithin) = 2
    /\ LET T == TextsOf(active_layout)
       IN  /\ Dist4(click.pos, T[2].insert) < Dist4(click.pos, T[1].insert)
           /\ emitted = <<[signal |-> "text_clicked", value |-> Strip(TextContent(T[2]))]>>

-----------------------------------------------------------------------------
(* Claims about the form *)

\* a field value up to the normalisation of a round trip: trimmed, with a
\* decimal comma
Normalised(text) == Replace(Strip(text), ".", ",")

SameValue(a, b) == Normalised(a) = Normalised(b)

\* C5 as claimed: after a form that could be saved was saved and the written
\* file was loaded, every mapped field (the header fields and, per slot, the
\* nominal size, the fit, the measuring tool and both tolerances) has the
\* value it had when the form was saved, up to trimming and the decimal comma;
\* also when tolerances were edited by hand after a fit was chosen, and for
\* any key order of the mapping.
C5_SaveLoadRoundTrip ==
    (last_op = "load" /\ dialogs = <<"Erfolg">>) =>
        LET w == protokoll_widget
            s == disk.form
        IN  /\ \A f \in HeaderFields : SameValue(w[f], s[f])
            /\ w.date_edit = s.date_edit
            /\ \A i \in Slots :
                  /\ SameValue(w.nominal_fields[i], s.nominal_fields[i])
                  /\ SameValue(w.iso_fit_combos[i], s.iso_fit_combos[i])
                  /\ SameValue(w.messmittel_combos[i], s.messmittel_combos[i])
                  /\ SameValue(w.upper_tol_combos[i], s.upper_tol_combos[i])
                  /\ SameValue(w.lower_tol_combos[i], s.lower_tol_combos[i])

\* the three texts of slot i all parse, the empty text counted as 0
SlotParses(w, i) ==
    /\ FloatOrZero(w.nominal_fields[i]).ok
    /\ FloatOrZero(w.upper_tol_combos[i]).ok
    /\ FloatOrZero(w.lower_tol_combos[i]).ok

\* N + (U + L) / 2 of slot i with 4 decimals and a decimal comma
TargetText(w, i) ==
    LET n == FloatOrZero(w.nominal_fields[i]).v
        u == FloatOrZero(w.upper_tol_combos[i]).v
        l == FloatOrZero(w.lower_tol_combos[i]).v
        m == 2 * n + u + l
    IN  Replace(FormatFixed(IF m < 0 THEN -((-m) \div 2) ELSE m \div 2,
                            ValueDecimals, FALSE), ".", ",")

SlotEmpty(w, i) ==
    /\ w.nominal_fields[i] = <<>>
    /\ w.upper_tol_combos[i] = <<>>
    /\ w.lower_tol_combos[i] = <<>>

\* C6 as claimed: whenever the nominal, upper and lower texts of a slot all
\* parse (decimal comma accepted, empty text counted as 0), the slot's
\* target label shows N + (U + L) / 2 with 4 decimals and a decimal comma.
C6_TargetLabelAlways ==
    \A i \in Slots :
        SlotParses(protokoll_widget, i) =>
            protokoll_widget.soll_labels[i] = TargetText(protokoll_widget, i)

\* C6, amended: whenever the three texts of a slot all parse and are not all
\* empty, the target label shows N + (U + L) / 2 with 4 decimals and a decimal
\* comma; a slot whose three texts are all empty shows that value, 0,0000,
\* or the placeholder --- it was constructed or cleared with.
C6_TargetLabel ==
    \A i \in Slots :
        SlotParses(protokoll_widget, i) =>
            \/ protokoll_widget.soll_labels[i] = TargetText(protokoll_widget, i)
            \/ /\ SlotEmpty(protokoll_widget, i)
               /\ protokoll_widget.soll_labels[i] = Placeholder

\* C6's case: a slot holds N = 10, U = +0,02 and L = -0.01 and its label
\* shows 10,0050
C6_Witness ==
    \E i \in Slots :
        /\ protokoll_widget.nominal_fields[i] = <<"1", "0">>
        /\ protokoll_widget.upper_tol_combos[i] = <<"+", "0", ",", "0", "2">>
        /\ protokoll_widget.lower_tol_combos[i] = <<"-", "0", ".", "0", "1">>
        /\ protokoll_widget.soll_labels[i] = <<"1", "0", ",", "0", "0", "5", "0">>

-----------------------------------------------------------------------------
(* Claims about files: mapping.json, the template, save and load *)

\* a mapping.json that holds a non-empty JSON object
MappingUsable(f) == f.kind = "json" /\ f.value.object /\ f.value.loaded

\* C11 as claimed: with mapping.json missing or invalid (no file, no JSON, no
\* readable text, a JSON value that is no mapping object) the application
\* still starts, and every save and load returns after its warning without
\* opening a file dialog, without reading or writing a workbook and without
\* changing a form field.
C11_UnusableMappingDisablesFiles ==
    [][~MappingUsable(mapping_file) =>
          /\ last_op' = "__init__" => app' = "running"
          /\ last_op' \in {"save", "load"} =>
                /\ Len(dialogs') = 1
                /\ io' = NoIo
                /\ disk' = disk
                /\ protokoll_widget' = protokoll_widget]_vars


\* the error dialogs of _load_protokoll_from_excel
LoadErrors == {<<"Fehler">>, <<"Excel-Fehler">>, <<"Ladefehler">>}

\* C12 as claimed: a load that fails while reading the chosen file shows one
\* error dialog and leaves the form with the values it held before the load
\* was started.  The code clears the form (_clear_ui(), line 590) inside the
\* try block before it opens the file, so the form is blank afterwards.
C12_FailedLoadKeepsForm ==
    [][(last_op' = "load" /\ dialogs' \in LoadErrors)
          => protokoll_widget' = protokoll_widget]_vars

\* what the code does on a failed read: one error dialog, nothing written,
\* and the form is the one _clear_ui() leaves
C12_FailedLoadClearsForm ==
    [][(last_op' = "load" /\ dialogs' \in LoadErrors)
          => /\ io'.dialog = "open" /\ ~io'.written /\ disk' = disk
             /\ protokoll_widget' = _clear_ui(protokoll_widget, tolerances_data)]_vars


(* Claims about recovering from failures *)

\* the layout the widget shows for the document it holds
ShownLayout(d) == IF d.ok THEN _get_layout_to_display(d) ELSE <<>>

\* C13: a drawing file that cannot be parsed shows the error dialog and
\* leaves the program running with the document and the active layout it had,
\* so that the layout picks are evaluated against is always the one of the
\* document last loaded with success; while no drawing was ever loaded, a
\* left click emits no signal.
C13_FailedDrawingLoadRecovers ==
    [][/\ (last_op' = "load_dxf" /\ dialogs' # <<>>) =>
             /\ dialogs' = <<"Fehler">>
             /\ app' = "running"
             /\ doc' = doc
             /\ active_layout' = active_layout
       /\ active_layout' = ShownLayout(doc')
       /\ (last_op' = "handle_mouse_press" /\ ~doc.ok) =>
             /\ emitted' = <<>>
             /\ protokoll_widget' = protokoll_widget]_vars

\* a failed load after a drawing with entities was shown
C13_Witness ==
    /\ last_op = "load_dxf"
    /\ dialogs = <<"Fehler">>
    /\ doc.ok
    /\ active_layout # <<>>


\* a text that float() rejects after the comma is replaced; the empty text
\* counts as 0
Unparseable(text) == text # <<>> /\ ~PyFloat(Replace(text, ",", ".")).ok

\* the widgets of slot i and its target label
SlotOf(w, i) ==
    [nominal |-> w.nominal_fields[i], iso_fit |-> w.iso_fit_combos[i],
     messmittel |-> w.messmittel_combos[i], upper_tol |-> w.upper_tol_combos[i],
     lower_tol |-> w.lower_tol_combos[i], soll |-> w.soll_labels[i]]

\* C14: after every edit of a slot, a slot whose nominal, upper-deviation or
\* lower-deviation text is non-empty and no number shows "---" as its target,
\* the program keeps running without a dialog, and the edit changes the
\* fields and the label of one slot only.
C14_UnparseableSlotShowsPlaceholder ==
    [][/\ \A i \in Slots :
             (\/ Unparseable(protokoll_widget'.nominal_fields[i])
              \/ Unparseable(protokoll_widget'.upper_tol_combos[i])
              \/ Unparseable(protokoll_widget'.lower_tol_combos[i]))
                => protokoll_widget'.soll_labels[i] = Placeholder
       /\ app' = "running"
       /\ dialogs' = <<>>
       /\ \A i, j \in Slots :
             i # j => \/ SlotOf(protokoll_widget', i) = SlotOf(protokoll_widget, i)
                      \/ SlotOf(protokoll_widget', j) = SlotOf(protokoll_widget, j)]_vars

\* a slot with a computed target, then a text that is no number typed into
\* another slot
C14_Witness ==
    \E i, j \in Slots :
       /\ i # j
       /\ Unparseable(protokoll_widget.lower_tol_combos[i])
       /\ protokoll_widget.nominal_fields[i] # <<>>
       /\ protokoll_widget.soll_labels[i] = Placeholder
       /\ protokoll_widget.soll_labels[j] = <<"1", "0", ",", "0", "0", "0", "0">>


\* text with its leading and trailing blanks removed is not empty
NonBlank(text) == Strip(text) # <<>>

\* C15: save writes a file only when the mapping is loaded, drawing number,
\* order and position are non-blank after trimming, the template exists and
\* the user confirmed a path in the save dialog; otherwise no file is written;
\* the form is never changed.  The written sheet is the template with the
\* trimmed header values in the mapped cells (a value mapped to the merged
\* cell C2 is in the anchor B2, C2 stays as in the template, unmapped or
\* unwritten cells are the template's, a slot's nominal text and target label
\* are in the slot's cells), and the name the dialog suggested is
\* '<drawing number>+<order>+<position>.xlsx'.
C15_SaveWritesOnlyWhenAllowed ==
    [][last_op' = "save" =>
          /\ protokoll_widget' = protokoll_widget
          /\ ~io'.written => disk' = disk
          /\ (io'.written \/ disk' # disk) =>
                /\ protokoll_widget.cell_mapping.loaded
                /\ MappingUsable(mapping_file)
                /\ NonBlank(protokoll_widget.zeichnungsnummer_field)
                /\ NonBlank(protokoll_widget.auftrag_edit)
                /\ NonBlank(protokoll_widget.pos_edit)
                /\ template_exists
                /\ io'.dialog = "save" /\ io'.read = "template"
                /\ dialogs' = <<"Erfolg">>
                /\ io'.suggested =
                      Strip(protokoll_widget.zeichnungsnummer_field) \o <<"+">>
                         \o Strip(protokoll_widget.auftrag_edit) \o <<"+">>
                         \o Strip(protokoll_widget.pos_edit) \o <<".xlsx">>
                /\ disk'.exists
                /\ disk'.sheet[<<"B", 2>>] = StrValue(Strip(protokoll_widget.zeichnungsnummer_field))
                /\ disk'.sheet[<<"C", 2>>] = TemplateSheet[<<"C", 2>>]
                /\ disk'.sheet[<<"B", 3>>] = StrValue(Strip(protokoll_widget.auftrag_edit))
                /\ disk'.sheet[<<"D", 3>>] = StrValue(Strip(protokoll_widget.pos_edit))
                /\ disk'.sheet[<<"F", 3>>] = StrValue(DateToString(protokoll_widget.date_edit))
                /\ ~NonBlank(protokoll_widget.oberflaeche_edit) =>
                      disk'.sheet[<<"B", 4>>] = TemplateSheet[<<"B", 4>>]
                /\ ~NonBlank(protokoll_widget.bemerkungen_edit) =>
                      disk'.sheet[<<"B", 5>>] = TemplateSheet[<<"B", 5>>]
                /\ \A i \in Slots :
                      /\ disk'.sheet[<<"N", 10 + i>>] =
                            IF protokoll_widget.nominal_fields[i] = <<>>
                            THEN TemplateSheet[<<"N", 10 + i>>]
                            ELSE StrValue(protokoll_widget.nominal_fields[i])
                      /\ disk'.sheet[<<"S", 10 + i>>] =
                            StrValue(protokoll_widget.soll_labels[i])]_vars

\* a file written through the mapping that names the merged cell, from a
\* drawing number typed with blanks around it
C15_Witness ==
    /\ last_op = "save"
    /\ io.written
    /\ mapping_file.value = MappingTolerancesFirst
    /\ protokoll_widget.zeichnungsnummer_field = <<" ", "Z", "1", " ">>
    /\ disk.sheet[<<"B", 2>>] = StrValue(<<"Z", "1">>)
    /\ \A i \in Slots : disk.sheet[<<"S", 10 + i>>] = StrValue(Placeholder)


(* Claims about the tolerance lookup of a slot *)

\* the row the resolver finds for the texts of slot i
FoundFor(w, i, rows) ==
    LET nominal_text == Replace(w.nominal_fields[i], ",", ".")
        size         == PyFloat(nominal_text)
    IN  IF nominal_text = <<>> \/ Strip(w.iso_fit_combos[i]) = <<>> \/ ~size.ok THEN None
        ELSE calculate(rows, size.v, Strip(w.iso_fit_combos[i]))

\* C16: after a change of a slot's nominal text or fit label, if both are
\* non-empty and the resolver finds a row, the slot's deviation fields hold the
\* row's deviations, signed and with 3 decimals, and the target label is
\* computed from the nominal and these deviations; if no row is found or the
\* nominal is no number, no dialog is shown and the deviation fields are as
\* they were.
C16_LookupFillsDeviations ==
    [][\A i \in Slots :
          (\/ protokoll_widget'.nominal_fields[i] # protokoll_widget.nominal_fields[i]
           \/ protokoll_widget'.iso_fit_combos[i] # protokoll_widget.iso_fit_combos[i])
          => LET found == FoundFor(protokoll_widget', i, tolerances_data)
             IN  /\ dialogs' = <<>>
                 /\ found.kind = "pair" =>
                       /\ protokoll_widget'.upper_tol_combos[i] =
                             FormatFixed(found.es, 3, TRUE)
                       /\ protokoll_widget'.lower_tol_combos[i] =
                             FormatFixed(found.ei, 3, TRUE)
                       /\ protokoll_widget'.soll_labels[i] =
                             SollText(PyFloat(Replace(protokoll_widget'.nominal_fields[i],
                                                      ",", ".")).v,
                                      PyFloat(protokoll_widget'.upper_tol_combos[i]).v,
                                      PyFloat(protokoll_widget'.lower_tol_combos[i]).v)
                 /\ found.kind # "pair" =>
                       /\ protokoll_widget'.upper_tol_combos[i] =
                             protokoll_widget.upper_tol_combos[i]
                       /\ protokoll_widget'.lower_tol_combos[i] =
                             protokoll_widget.lower_tol_combos[i]]_vars

\* deviations of the row for 10 H7 that are still in the fields after the
\* nominal was changed to a size no row holds
C16_Witness ==
    \E i \in Slots :
       /\ protokoll_widget.nominal_fields[i] = <<"3", "0">>
       /\ protokoll_widget.iso_fit_combos[i] = <<"H", "7">>
       /\ protokoll_widget.upper_tol_combos[i] = <<"+", "0", ".", "0", "1", "5">>
       /\ protokoll_widget.lower_tol_combos[i] = <<"+", "0", ".", "0", "0", "0">>
       /\ protokoll_widget.soll_labels[i] = <<"3", "0", ",", "0", "0", "7", "5">>


(* Claims about arming a field and picking into it *)

\* the text of an armable field
FieldText(w, t) ==
    IF t.field = "nominal_fields" THEN w.nominal_fields[t.i] ELSE w.zeichnungsnummer_field

\* the text a delivered signal puts into the armed field
DeliveredText(w, sig) ==
    IF sig.signal = "dimension_clicked" THEN CorrectedValue(w, sig.value) ELSE sig.value

\* C17: arming is one-shot.  A pick that emits a value while a field is armed
\* writes the value into that field, into no other armable field, and
\* disarms; a pick that emits a value while no field is armed changes nothing
\* in the form and shows only the notice.  At most one field is armed.
C17_ArmingIsOneShot ==
    [][/\ target_widget' \in ArmableFields \cup {NoTarget}
       /\ (last_op' = "handle_mouse_press" /\ emitted' # <<>>) =>
             IF target_widget # NoTarget
             THEN /\ target_widget' = NoTarget
                  /\ dialogs' = <<>>
                  /\ FieldText(protokoll_widget', target_widget) =
                        DeliveredText(protokoll_widget, emitted'[1])
                  /\ \A t \in ArmableFields \ {target_widget} :
                        FieldText(protokoll_widget', t) = FieldText(protokoll_widget, t)
             ELSE /\ target_widget' = NoTarget
                  /\ dialogs' = <<"Hinweis">>
                  /\ protokoll_widget' = protokoll_widget]_vars

\* a second pick after the one that filled the drawing-number field: the
\* notice is shown and the field holds the first value
C17_Witness ==
    /\ last_op = "handle_mouse_press"
    /\ emitted # <<>>
    /\ dialogs = <<"Hinweis">>
    /\ target_widget = NoTarget
    /\ protokoll_widget.zeichnungsnummer_field # <<>>


\* the selection mode is one of the two modes and fits the armed field
ModeFitsTarget ==
    /\ selection_mode \in {"dimension", "text"}
    /\ target_widget.field = "nominal_fields" => selection_mode = "dimension"
    /\ target_widget = ZeichnungsnummerField => selection_mode = "text"

\* C18: over every sequence of drawing loads, field clicks, picks and edits
\* by hand the selection mode is 'dimension' or 'text', it is 'dimension'
\* while a nominal field is armed and 'text' while the drawing-number field
\* is armed; so a pick that writes into a nominal field delivers a dimension
\* value and a pick that writes into the drawing-number field a text.
C18_ModeFollowsTarget ==
    /\ []ModeFitsTarget
    /\ [][(last_op' = "handle_mouse_press" /\ emitted' # <<>> /\ target_widget # NoTarget)
             => emitted'[1].signal =
                   IF target_widget = ZeichnungsnummerField
                   THEN "text_clicked" ELSE "dimension_clicked"]_vars

\* the drawing-number field armed after a dimension was picked into a
\* nominal field: the mode went from 'dimension' to 'text'
C18_Witness ==
    /\ last_op = "field_selected"
    /\ target_widget = ZeichnungsnummerField
    /\ selection_mode = "text"
    /\ \E i \in Slots : protokoll_widget.nominal_fields[i] # <<>>


\* C19 as claimed: typing into the armed field disarms it, for the nominal
\* fields and the drawing-number field alike, and typing into another field
\* leaves the armed field armed.  The drawing-number field has no textEdited
\* connection (lines 398-399; the nominal fields have one, line 502), so
\* typing into it while it is armed leaves it armed and the next text pick
\* overwrites what was typed.
C19_TypingDisarms ==
    [][last_op' = "edit" =>
          IF /\ target_widget # NoTarget
             /\ FieldText(protokoll_widget', target_widget)
                   # FieldText(protokoll_widget, target_widget)
          THEN target_widget' = NoTarget
          ELSE target_widget' = target_widget]_vars

\* what the code does: typing into an armed nominal field disarms it, every
\* other edit by hand leaves the armed field as it is
C19_NominalTypingDisarms ==
    [][last_op' = "edit" =>
          IF /\ target_widget.field = "nominal_fields"
             /\ FieldText(protokoll_widget', target_widget)
                   # FieldText(protokoll_widget, target_widget)
          THEN target_widget' = NoTarget
          ELSE target_widget' = target_widget]_vars


(* Claims about the pager *)

\* the form without what the pager shows
BesidesPager(w) ==
    [w EXCEPT !.current_page = 0, !.visible_blocks = {},
              !.page_label = [page |-> 0, of |-> 0],
              !.prev_enabled = FALSE, !.next_enabled = FALSE]

\* the page is one of the three pages, its two blocks are the visible ones,
\* and the buttons are enabled where there is a page to go to
PagerInv ==
    /\ total_pages = 3
    /\ protokoll_widget.current_page \in 0..2
    /\ protokoll_widget.visible_blocks =
          {2 * protokoll_widget.current_page, 2 * protokoll_widget.current_page + 1}
    /\ protokoll_widget.visible_blocks \subseteq 0..5
    /\ \A b \in 0..5 : Cardinality({p \in 0..2 : b \in {2 * p, 2 * p + 1}}) = 1
    /\ protokoll_widget.page_label = [page |-> protokoll_widget.current_page + 1, of |-> 3]
    /\ protokoll_widget.prev_enabled <=> protokoll_widget.current_page > 0
    /\ protokoll_widget.next_enabled <=> protokoll_widget.current_page < 2

\* C20: over every sequence of clicks on the two pager buttons (and edits of
\* the form) the current page is 0, 1 or 2, exactly the blocks 2*page and
\* 2*page+1 are visible, the previous button is enabled iff the page is not
\* the first and the next button iff it is not the last; previous on the
\* first page and next on the last page change nothing, any other click moves
\* by one page, and paging changes no field value.
C20_PagerInvariant ==
    /\ []PagerInv
    /\ [][/\ last_op' = "_previous_page" =>
                /\ protokoll_widget.current_page = 0 => protokoll_widget' = protokoll_widget
                /\ protokoll_widget.current_page > 0 =>
                      protokoll_widget'.current_page = protokoll_widget.current_page - 1
                /\ BesidesPager(protokoll_widget') = BesidesPager(protokoll_widget)
          /\ last_op' = "_next_page" =>
                /\ protokoll_widget.current_page = 2 => protokoll_widget' = protokoll_widget
                /\ protokoll_widget.current_page < 2 =>
                      protokoll_widget'.current_page = protokoll_widget.current_page + 1
                /\ BesidesPager(protokoll_widget') = BesidesPager(protokoll_widget)]_vars

\* the last page, reached by the next button with a slot filled in
C20_Witness ==
    /\ last_op = "_next_page"
    /\ protokoll_widget.current_page = 2
    /\ protokoll_widget.visible_blocks = {4, 5}
    /\ ~protokoll_widget.next_enabled
    /\ \E i \in Slots : protokoll_widget.nominal_fields[i] # <<>>


(* Claims about the scale *)

\* the factor the text of the scale combo stands for, as num/den with
\* den > 0 and in lowest terms: 'a:b' is a/b, a plain number itself; one =
\* TRUE where the text is no number, has more than one colon or a zero
\* denominator
ClaimedFactor(scale_text) ==
    LET text  == Replace(Strip(scale_text), ",", ".")
        cs    == Colons(text)
        c     == CHOOSE i \in cs : TRUE
        a     == PyFloat(SubSeq(text, 1, c - 1))
        b     == PyFloat(SubSeq(text, c + 1, Len(text)))
        plain == PyFloat(text)
    IN  IF cs = {}
        THEN IF plain.ok
             THEN [one |-> FALSE, num |-> Fraction(plain.v, UNIT).n,
                   den |-> Fraction(plain.v, UNIT).d]
             ELSE [one |-> TRUE, num |-> 1, den |-> 1]
        ELSE IF Cardinality(cs) = 1 /\ a.ok /\ b.ok /\ b.v # 0
             THEN [one |-> FALSE,
                   num |-> IF b.v < 0 THEN -Fraction(a.v, b.v).n ELSE Fraction(a.v, b.v).n,
                   den |-> Abs(Fraction(a.v, b.v).d)]
             ELSE [one |-> TRUE, num |-> 1, den |-> 1]

\* digits, a decimal comma and exactly 4 decimals, with or without a sign
FourDecimalsComma(text) ==
    /\ Len(text) >= 6
    /\ text[Len(text) - 4] = ","
    /\ \A i \in 1..Len(text) :
          IF i = Len(text) - 4 THEN TRUE
          ELSE IF i = 1 THEN text[i] \in Digits \cup {"-"}
          ELSE text[i] \in Digits

\* C21: a dimension value d picked into the armed nominal field is written
\* as d divided by the scale factor, rounded to 4 decimals and with a decimal
\* comma; 'a:b' stands for a/b and a plain number for itself.  For a scale
\* text that is no number, has more than one colon or a zero denominator, or
\* whose factor is zero or negative, d itself is written.  No dialog is
\* shown and the program keeps running.
C21_PickDividedByScale ==
    [][(/\ last_op' = "handle_mouse_press"
        /\ emitted' # <<>>
        /\ emitted'[1].signal = "dimension_clicked"
        /\ target_widget.field = "nominal_fields")
       => LET d       == PyFloat(emitted'[1].value).v
              written == protokoll_widget'.nominal_fields[target_widget.i]
              value   == PyFloat(Replace(written, ",", ".")).v
              factor  == ClaimedFactor(protokoll_widget.scale_combo)
          IN  /\ app' = "running"
              /\ dialogs' = <<>>
              /\ FourDecimalsComma(written)
              /\ IF factor.one \/ factor.num <= 0
                 THEN value = d
                 ELSE 2 * Abs(value * factor.num - d * factor.den)
                         <= (UNIT \div Pow10(ValueDecimals)) * factor.num]_vars

\* 12.5 picked at the scale 3:1: the quotient does not end and is rounded
C21_Witness ==
    /\ last_op = "handle_mouse_press"
    /\ emitted # <<>>
    /\ protokoll_widget.scale_combo = <<"3", ":", "1">>
    /\ PyFloat(emitted[1].value).v = 1250000
    /\ protokoll_widget.nominal_fields[1] = <<"4", ",", "1", "6", "6", "7">>

=============================================================================
